---- MODULE Spec2Model ----
(***************************************************************************)
(* Structured-output recovery of the learning platform backend:            *)
(*   utils.extract_json, the json.loads it relies on,                      *)
(*   learning_path.process_learning_path_query and its consolidated copy   *)
(*   in learning_paths.py, and ai_quiz_generator.generate_ai_quiz.         *)
(*                                                                         *)
(* Texts are sequences of one-character strings.  Python values are        *)
(* tagged tuples:                                                          *)
(*   <<"none">>            None (also the JSON literal null)               *)
(*   <<"lit", "true">>     True / False                                    *)
(*   <<"num", lexeme>>     a number, kept as the characters of its literal *)
(*   <<"str", chars>>      a string                                        *)
(*   <<"arr", elems>>      a list                                          *)
(*   <<"obj", pairs>>      a dict, as the sequence of its <<key, value>>   *)
(*                         pairs in insertion order, keys unique           *)
(***************************************************************************)
EXTENDS Integers, Sequences, FiniteSets, TLC

----------------------------------------------------------------------------
(* Characters *)

QUOTE == "\""
BSLASH == "\\"
\* the backtick, which a TLA+ string cannot hold, under a name of its own
TICK == "<backtick>"
NL == "\n"

\* str.strip() and the JSON whitespace agree on the characters of the model
WS == {" ", NL, "\t", "\r"}

DigitChars == {"0", "1", "2", "3", "4", "5", "6", "7", "8", "9"}

PyNone == <<"none">>
PyTrue == <<"lit", "true">>
PyFalse == <<"lit", "false">>

PyStr(chars) == <<"str", chars>>

PyObj(pairs) == <<"obj", pairs>>

PyArr(elems) == <<"arr", elems>>

PyNum(lexeme) == <<"num", lexeme>>

Tag(v) == v[1]

IsStr(v) == Tag(v) = "str"

IsDict(v) == Tag(v) = "obj"

IsList(v) == Tag(v) = "arr"

\* a number is zero when its mantissa has no non-zero digit
NumIsZero(lexeme) ==
    LET expAt == {i \in 1..Len(lexeme) : lexeme[i] \in {"e", "E"}}
        last == IF expAt = {} THEN Len(lexeme)
                ELSE (CHOOSE i \in expAt : \A j \in expAt : i <= j) - 1
    IN  \A i \in 1..last : lexeme[i] \in {"0", "-", "."}

\* Python truth value: (not v) is ~Truthy(v)
Truthy(v) ==
    CASE Tag(v) = "none" -> FALSE
      [] Tag(v) = "lit" -> v = PyTrue
      [] Tag(v) = "num" -> ~NumIsZero(v[2])
      [] OTHER -> Len(v[2]) > 0

----------------------------------------------------------------------------
(* text helpers *)

RECURSIVE SkipWs(_, _)
\* first index >= i that is past the end or not whitespace
SkipWs(s, i) == IF i <= Len(s) /\ s[i] \in WS THEN SkipWs(s, i + 1) ELSE i

RECURSIVE SkipWsBack(_, _)
\* last index <= i that is before the start or not whitespace
SkipWsBack(s, i) == IF i >= 1 /\ s[i] \in WS THEN SkipWsBack(s, i - 1) ELSE i

\* str.strip()
strip(s) == SubSeq(s, SkipWs(s, 1), SkipWsBack(s, Len(s)))

\* s[i:].startswith(p), i counted from 1
StartsWithAt(s, i, p) ==
    /\ i + Len(p) - 1 <= Len(s)
    /\ \A k \in 1..Len(p) : s[i + k - 1] = p[k]

\* str.find from index i: the first index >= i where p occurs, 0 when none
FindFrom(s, i, p) ==
    LET hits == {j \in i..Len(s) : StartsWithAt(s, j, p)}
    IN  IF hits = {} THEN 0 ELSE CHOOSE j \in hits : \A k \in hits : j <= k

----------------------------------------------------------------------------
(* json.loads: the decoder of the standard library, strict mode *)

ParseFail == [ok |-> FALSE, v |-> PyNone, n |-> 0]

ParseOk(val, next) == [ok |-> TRUE, v |-> val, n |-> next]

\* the escapes py_scanstring accepts (\uXXXX is outside the model's alphabet)
Unescape(c) ==
    CASE c = QUOTE -> QUOTE
      [] c = BSLASH -> BSLASH
      [] c = "/" -> "/"
      [] c = "n" -> NL
      [] c = "t" -> "\t"
      [] c = "r" -> "\r"
      [] c = "f" -> "\f"
      [] c = "b" -> "\\b"

EscapeChars == {QUOTE, BSLASH, "/", "n", "t", "r", "f", "b"}

ControlChars == {NL, "\t", "\r", "\f", "\\b"}

RECURSIVE ScanString(_, _, _)
\* the body of a string literal from index i (just after the opening quote)
ScanString(s, i, acc) ==
    IF i > Len(s) THEN ParseFail
    ELSE IF s[i] = QUOTE THEN ParseOk(acc, i + 1)
    ELSE IF s[i] = BSLASH THEN
        IF i + 1 <= Len(s) /\ s[i + 1] \in EscapeChars
        THEN ScanString(s, i + 2, Append(acc, Unescape(s[i + 1])))
        ELSE ParseFail
    ELSE IF s[i] \in ControlChars THEN ParseFail
    ELSE ScanString(s, i + 1, Append(acc, s[i]))

RECURSIVE SkipDigits(_, _)
SkipDigits(s, i) == IF i <= Len(s) /\ s[i] \in DigitChars THEN SkipDigits(s, i + 1) ELSE i

\* the integer part -?(?:0|[1-9]\d*) from index a (after the sign): the index
\* after it, 0 when there is none
ScanInt(s, a) ==
    IF a <= Len(s) /\ s[a] = "0" THEN a + 1
    ELSE IF a <= Len(s) /\ s[a] \in DigitChars THEN SkipDigits(s, a)
    ELSE 0

\* the optional fraction (\.\d+)? at index b
ScanFraction(s, b) ==
    IF b + 1 <= Len(s) /\ s[b] = "." /\ s[b + 1] \in DigitChars
    THEN SkipDigits(s, b + 1) ELSE b

\* the digits of an exponent whose marker is at c and whose digits start at e
ScanExpDigits(s, c, e) ==
    IF e <= Len(s) /\ s[e] \in DigitChars THEN SkipDigits(s, e) ELSE c

\* the optional exponent ([eE][-+]?\d+)? at index c
ScanExponent(s, c) ==
    IF c <= Len(s) /\ s[c] \in {"e", "E"}
    THEN ScanExpDigits(s, c, IF c + 1 <= Len(s) /\ s[c + 1] \in {"-", "+"} THEN c + 2 ELSE c + 1)
    ELSE c

ScanNumberTail(s, b) == IF b = 0 THEN 0 ELSE ScanExponent(s, ScanFraction(s, b))

\* NUMBER_RE (-?(?:0|[1-9]\d*))(\.\d+)?([eE][-+]?\d+)? matched at i:
\* the index after the match, 0 when there is none
ScanNumber(s, i) ==
    ScanNumberTail(s, ScanInt(s, IF i <= Len(s) /\ s[i] = "-" THEN i + 1 ELSE i))

\* dict[key] = value: a repeated key keeps its place and takes the new value
PutPair(pairs, key, val) ==
    IF \E k \in 1..Len(pairs) : pairs[k][1] = key
    THEN [k \in 1..Len(pairs) |-> IF pairs[k][1] = key THEN <<key, val>> ELSE pairs[k]]
    ELSE Append(pairs, <<key, val>>)

StringValue(r) == IF r.ok THEN ParseOk(PyStr(r.v), r.n) ELSE ParseFail

NumberValue(s, i, e) == IF e # 0 THEN ParseOk(PyNum(SubSeq(s, i, e - 1)), e) ELSE ParseFail

RECURSIVE ParseValue(_, _), ParseMembers(_, _, _), MemberKey(_, _, _),
          MemberColon(_, _, _, _), MemberValue(_, _, _, _), MemberNext(_, _, _),
          ParseElems(_, _, _), ElemValue(_, _, _), ElemNext(_, _, _),
          ObjectBody(_, _), ArrayBody(_, _)
\* scan_once: one JSON value starting exactly at index i
ParseValue(s, i) ==
    IF i > Len(s) THEN ParseFail
    ELSE IF s[i] = QUOTE THEN StringValue(ScanString(s, i + 1, <<>>))
    ELSE IF s[i] = "{" THEN ObjectBody(s, SkipWs(s, i + 1))
    ELSE IF s[i] = "[" THEN ArrayBody(s, SkipWs(s, i + 1))
    ELSE IF StartsWithAt(s, i, <<"n", "u", "l", "l">>) THEN ParseOk(PyNone, i + 4)
    ELSE IF StartsWithAt(s, i, <<"t", "r", "u", "e">>) THEN ParseOk(PyTrue, i + 4)
    ELSE IF StartsWithAt(s, i, <<"f", "a", "l", "s", "e">>) THEN ParseOk(PyFalse, i + 5)
    ELSE NumberValue(s, i, ScanNumber(s, i))

\* JSONObject after '{' and whitespace
ObjectBody(s, j) ==
    IF j <= Len(s) /\ s[j] = "}" THEN ParseOk(PyObj(<<>>), j + 1)
    ELSE ParseMembers(s, j, <<>>)

\* JSONArray after '[' and whitespace
ArrayBody(s, j) ==
    IF j <= Len(s) /\ s[j] = "]" THEN ParseOk(PyArr(<<>>), j + 1)
    ELSE ParseElems(s, j, <<>>)

\* the members of an object, index i at the quote of the next key
ParseMembers(s, i, acc) ==
    IF i > Len(s) \/ s[i] # QUOTE THEN ParseFail
    ELSE MemberKey(s, ScanString(s, i + 1, <<>>), acc)

\* the key k has been scanned: whitespace, then ':'
MemberKey(s, k, acc) ==
    IF ~k.ok THEN ParseFail ELSE MemberColon(s, k.v, SkipWs(s, k.n), acc)

MemberColon(s, key, c, acc) ==
    IF c > Len(s) \/ s[c] # ":" THEN ParseFail
    ELSE MemberValue(s, key, ParseValue(s, SkipWs(s, c + 1)), acc)

\* the value r of the member has been scanned
MemberValue(s, key, r, acc) ==
    IF ~r.ok THEN ParseFail ELSE MemberNext(s, SkipWs(s, r.n), PutPair(acc, key, r.v))

\* after a member: '}' ends the object, ',' brings the next member
MemberNext(s, e, acc) ==
    IF e > Len(s) THEN ParseFail
    ELSE IF s[e] = "}" THEN ParseOk(PyObj(acc), e + 1)
    ELSE IF s[e] = "," THEN ParseMembers(s, SkipWs(s, e + 1), acc)
    ELSE ParseFail

\* the elements of an array, index i at the next element
ParseElems(s, i, acc) == ElemValue(s, ParseValue(s, i), acc)

ElemValue(s, r, acc) ==
    IF ~r.ok THEN ParseFail ELSE ElemNext(s, SkipWs(s, r.n), Append(acc, r.v))

\* after an element: ']' ends the array, ',' brings the next element
ElemNext(s, e, acc) ==
    IF e > Len(s) THEN ParseFail
    ELSE IF s[e] = "]" THEN ParseOk(PyArr(acc), e + 1)
    ELSE IF s[e] = "," THEN ParseElems(s, SkipWs(s, e + 1), acc)
    ELSE ParseFail

\* the end of json.loads: only whitespace may follow the value
WholeText(s, r) ==
    IF r.ok /\ SkipWs(s, r.n) = Len(s) + 1
    THEN [ok |-> TRUE, v |-> r.v]
    ELSE [ok |-> FALSE, v |-> PyNone]

\* json.loads(s): ok = FALSE stands for json.JSONDecodeError
json_loads(s) == WholeText(s, ParseValue(s, SkipWs(s, 1)))

----------------------------------------------------------------------------
(* utils.extract_json *)

FENCE == <<TICK, TICK, TICK>>

JSON_TAG == <<"j", "s", "o", "n">>

RECURSIVE CodeMatches(_, _)
\* re.findall(r'```(?:json)?\s*([\s\S]*?)\s*```', text) from index pos:
\* the captured bodies, in order of appearance
CodeMatches(s, pos) ==
    LET open == FindFrom(s, pos, FENCE)
        a == IF StartsWithAt(s, open + 3, JSON_TAG) THEN open + 7 ELSE open + 3
        p == SkipWs(s, a)
        close == FindFrom(s, p, FENCE)
    IN  IF open = 0 \/ close = 0 THEN <<>>
        ELSE <<SubSeq(s, p, SkipWsBack(s, close - 1))>> \o CodeMatches(s, close + 3)

RECURSIVE BraceScan(_, _, _, _, _)
\* the loop over text[start_idx:] that collects potential_jsons
BraceScan(s, i, start_idx, brace_count, potential_jsons) ==
    IF i > Len(s) THEN potential_jsons
    ELSE IF s[i] = "{" THEN BraceScan(s, i + 1, start_idx, brace_count + 1, potential_jsons)
    ELSE IF s[i] = "}" THEN
        IF brace_count - 1 = 0
        THEN LET found == Append(potential_jsons, SubSeq(s, start_idx, i))
                 next_start == FindFrom(s, i + 1, <<"{">>)
             IN  IF next_start # 0 THEN BraceScan(s, i + 1, next_start, 0, found)
                 ELSE found
        ELSE BraceScan(s, i + 1, start_idx, brace_count - 1, potential_jsons)
    ELSE BraceScan(s, i + 1, start_idx, brace_count, potential_jsons)

RECURSIVE ReplaceEscapedSlash(_, _)
\* cleaned_text.replace('\\/', '/')
ReplaceEscapedSlash(s, i) ==
    IF i > Len(s) THEN <<>>
    ELSE IF s[i] = BSLASH /\ i + 1 <= Len(s) /\ s[i + 1] = "/"
         THEN <<"/">> \o ReplaceEscapedSlash(s, i + 2)
         ELSE <<s[i]>> \o ReplaceEscapedSlash(s, i + 1)

RECURSIVE RemoveInvalidEscapes(_, _)
\* re.sub(r'\\(?!["\\bfnrt/])', '', cleaned_text)
RemoveInvalidEscapes(s, i) ==
    IF i > Len(s) THEN <<>>
    ELSE IF s[i] = BSLASH /\ (i = Len(s) \/ s[i + 1] \notin EscapeChars)
         THEN RemoveInvalidEscapes(s, i + 1)
         ELSE <<s[i]>> \o RemoveInvalidEscapes(s, i + 1)

\* the first '}' after index i that ends the text or is not followed by '{'
LazyClose(s, i) ==
    LET ends == {j \in (i + 1)..Len(s) : s[j] = "}" /\ (j = Len(s) \/ s[j + 1] # "{")}
    IN  IF ends = {} THEN 0 ELSE CHOOSE j \in ends : \A k \in ends : j <= k

RECURSIVE ExtraMatches(_, _)
\* re.findall(r'({[\s\S]*?})\s*(?:[^{]|$)', text) from index pos
ExtraMatches(s, pos) ==
    LET open == FindFrom(s, pos, <<"{">>)
        close == LazyClose(s, open)
        w == SkipWs(s, close + 1)
        after == IF w <= Len(s) /\ s[w] # "{" THEN w + 1 ELSE w
    IN  IF open = 0 \/ close = 0 THEN <<>>
        ELSE <<SubSeq(s, open, close)>> \o ExtraMatches(s, after)

\* one text the function hands to json.loads; braced = TRUE when the code
\* first requires startswith('{') and endswith('}')
Candidate(chars, braced) == [chars |-> chars, braced |-> braced]

RECURSIVE Candidates(_, _)
Candidates(matches, braced) ==
    IF Len(matches) = 0 THEN <<>>
    ELSE <<Candidate(Head(matches), braced)>> \o Candidates(Tail(matches), braced)

\* lines 36-57: the brace scan starts at the first '{'
BraceMatches(s, start_idx) ==
    IF start_idx = 0 THEN <<>> ELSE BraceScan(s, start_idx, start_idx, 0, <<>>)

\* lines 83-88: the cleaned-up text is tried when the text is in braces
CleanedCandidate(cleaned_text) ==
    IF cleaned_text[1] = "{" /\ cleaned_text[Len(cleaned_text)] = "}"
    THEN <<Candidate(RemoveInvalidEscapes(ReplaceEscapedSlash(cleaned_text, 1), 1), FALSE)>>
    ELSE <<>>

\* every text extract_json tries, in the order it tries them: the code blocks,
\* the brace-matched spans, the whole text, the cleaned-up text, the spans of
\* the last pattern
AllCandidates(s) ==
    Candidates(CodeMatches(s, 1), FALSE)
    \o Candidates(BraceMatches(s, FindFrom(s, 1, <<"{">>)), TRUE)
    \o <<Candidate(s, FALSE)>>
    \o CleanedCandidate(strip(s))
    \o Candidates(ExtraMatches(s, 1), TRUE)

\* the tests before json.loads: the stripped match is not empty and, where
\* the code asks for it, in braces
Usable(cleaned_match, braced) ==
    /\ Len(cleaned_match) > 0
    /\ braced => cleaned_match[1] = "{" /\ cleaned_match[Len(cleaned_match)] = "}"

RECURSIVE FirstParsed(_, _), TryCandidate(_, _, _, _), TryParsed(_, _, _)
\* "try: return json.loads(...) except JSONDecodeError: continue" over the
\* candidates from the k-th on; PyNone when none parses
FirstParsed(cands, k) ==
    IF k > Len(cands) THEN PyNone
    ELSE TryCandidate(cands, k, strip(cands[k].chars), cands[k].braced)

TryCandidate(cands, k, cleaned_match, braced) ==
    IF Usable(cleaned_match, braced) THEN TryParsed(cands, k, json_loads(cleaned_match))
    ELSE FirstParsed(cands, k + 1)

TryParsed(cands, k, r) == IF r.ok THEN r.v ELSE FirstParsed(cands, k + 1)

\* extract_json(text) for a Python value text; PyNone is the None it returns
extract_json(text) ==
    IF ~Truthy(text) \/ ~IsStr(text) \/ Len(strip(text[2])) = 0 THEN PyNone
    ELSE FirstParsed(AllCandidates(text[2]), 1)

----------------------------------------------------------------------------
(* json.dumps, dict access, int() *)

\* the escapes of json.dumps (ensure_ascii, characters of the model)
EscapeChar(c) ==
    CASE c = QUOTE -> <<BSLASH, QUOTE>>
      [] c = BSLASH -> <<BSLASH, BSLASH>>
      [] c = NL -> <<BSLASH, "n">>
      [] c = "\t" -> <<BSLASH, "t">>
      [] c = "\r" -> <<BSLASH, "r">>
      [] c = "\f" -> <<BSLASH, "f">>
      [] c = "\\b" -> <<BSLASH, "b">>
      [] OTHER -> <<c>>

RECURSIVE EscapeChars2(_, _)
EscapeChars2(chars, i) ==
    IF i > Len(chars) THEN <<>> ELSE EscapeChar(chars[i]) \o EscapeChars2(chars, i + 1)

\* encode a str: the quoted, escaped literal
DumpStr(chars) == <<QUOTE>> \o EscapeChars2(chars, 1) \o <<QUOTE>>

RECURSIVE json_dumps(_), DumpItems(_, _, _)
\* json.dumps(v) with the default separators ', ' and ': '; a number is
\* written as its literal (integers)
json_dumps(v) ==
    CASE Tag(v) = "none" -> <<"n", "u", "l", "l">>
      [] Tag(v) = "lit" -> IF v = PyTrue THEN <<"t", "r", "u", "e">> ELSE <<"f", "a", "l", "s", "e">>
      [] Tag(v) = "num" -> v[2]
      [] Tag(v) = "str" -> DumpStr(v[2])
      [] Tag(v) = "arr" -> <<"[">> \o DumpItems(v[2], 1, FALSE) \o <<"]">>
      [] Tag(v) = "obj" -> <<"{">> \o DumpItems(v[2], 1, TRUE) \o <<"}">>

DumpItems(items, i, keyed) ==
    IF i > Len(items) THEN <<>>
    ELSE (IF i > 1 THEN <<",", " ">> ELSE <<>>)
         \o (IF keyed THEN DumpStr(items[i][1]) \o <<":", " ">> \o json_dumps(items[i][2])
             ELSE json_dumps(items[i]))
         \o DumpItems(items, i + 1, keyed)

\* key in d
HasKey(d, key) == \E k \in 1..Len(d[2]) : d[2][k][1] = key

\* d.get(key, default)
Get(d, key, default) ==
    IF HasKey(d, key)
    THEN d[2][CHOOSE k \in 1..Len(d[2]) : d[2][k][1] = key][2]
    ELSE default

DigitOrder == <<"0", "1", "2", "3", "4", "5", "6", "7", "8", "9">>

DigitVal(c) == (CHOOSE k \in 1..10 : DigitOrder[k] = c) - 1

\* a Python int from 0 to 9
PyInt(i) == PyNum(<<DigitOrder[i + 1]>>)

RECURSIVE DigitsVal(_, _, _)
\* the value of the digits of tok from index i on, underscores skipped
DigitsVal(tok, i, acc) ==
    IF i > Len(tok) THEN acc
    ELSE IF tok[i] = "_" THEN DigitsVal(tok, i + 1, acc)
    ELSE DigitsVal(tok, i + 1, acc * 10 + DigitVal(tok[i]))

\* int(tok) for a str without whitespace: an optional sign, then digits with
\* single underscores between them
py_int(tok) ==
    LET signed == Len(tok) > 0 /\ tok[1] \in {"-", "+"}
        a == IF signed THEN 2 ELSE 1
        wellFormed ==
            /\ a <= Len(tok)
            /\ \A k \in a..Len(tok) : tok[k] \in DigitChars \cup {"_"}
            /\ tok[a] # "_" /\ tok[Len(tok)] # "_"
            /\ \A k \in a..(Len(tok) - 1) : ~(tok[k] = "_" /\ tok[k + 1] = "_")
    IN  IF ~wellFormed THEN [kind |-> "ValueError", n |-> 0]
        ELSE [kind |-> "ok",
              n |-> IF signed /\ tok[1] = "-" THEN 0 - DigitsVal(tok, a, 0)
                    ELSE DigitsVal(tok, a, 0)]

\* int(v.split()[0]): the duration of the lesson document
FirstTokenInt(v) ==
    IF ~IsStr(v) THEN [kind |-> "AttributeError", n |-> 0]
    ELSE LET a == SkipWs(v[2], 1)
             ends == {j \in a..Len(v[2]) : v[2][j] \in WS}
             b == IF ends = {} THEN Len(v[2])
                  ELSE (CHOOSE j \in ends : \A k \in ends : j <= k) - 1
         IN  IF a > Len(v[2]) THEN [kind |-> "IndexError", n |-> 0]
             ELSE py_int(SubSeq(v[2], a, b))

----------------------------------------------------------------------------
(* process_learning_path_query: learning_path.py, the copy chat.py calls,  *)
(* and learning_paths.py, the consolidated copy                            *)

\* the most top-level invocations of one behaviour
MaxRuns == 2

\* the largest max_retries an invocation is given (the default is 3)
MaxRetriesBound == 3

VARIABLES
    pc,               \* "idle", "attempt", "generating", "respond", "done"
    variant,          \* which copy runs: "learning_path" or "learning_paths"
    user_prompt,
    max_retries,
    retry_count,
    prompts,          \* the prompts handed to generate_response in this run
    outstanding,      \* generate_response calls issued and not yet returned
    response_content,
    classified,       \* how the latest attempt's output was classified
    result,           \* what the top-level call returned or raised
    lessons,          \* the lessons collection, in insertion order
    chat_history,     \* the messages handed to store_chat_history
    stores,           \* store_chat_history calls of this run
    runs,
    now,              \* the clock, in whole seconds: int(utcnow().timestamp())
    quizzes,          \* the quizzes collection, in insertion order
    quiz_result,      \* what the latest generate_ai_quiz request got back
    quiz_calls,
    document,         \* the document of the round trip
    serialized,       \* json.dumps(document)
    extracted,        \* extract_json(serialized)
    stage,            \* "idle", "document", "serialized", "extracted", "changed",
                      \* "compared"
    other_text,       \* the serialized text with something put around it
    other_result,     \* extract_json(other_text)
    change,           \* "none", "fenced", "noise", "prefix"
    chat_messages,    \* the chat_messages collection: the quiz messages of the topics
    quiz_attempts,    \* the quiz_attempts collection, in insertion order
    grade_request,    \* the latest grading call
    grade_result,     \* what the latest grading call returned or raised
    grade_calls,
    chat_request,     \* the latest call of the chat service
    chat_result,      \* the APIResponse it returned
    user_topic_progress,  \* the user_topic_progress collection
    learning_goals,   \* the learning_goals collection, in insertion order
    progress_request, \* the latest mark_topic_complete call
    progress_result,  \* what it returned or raised
    progress_calls,
    create_pc,        \* where each create_learning_path request is
    create_result     \* what each create_learning_path request got back

pathVars == <<pc, variant, user_prompt, max_retries, retry_count, prompts, outstanding,
              response_content, classified, result, lessons, chat_history, stores, runs>>

quizVars == <<now, quizzes, quiz_result, quiz_calls>>

roundTripVars == <<document, serialized, extracted, stage>>

changeVars == <<other_text, other_result, change>>

gradeVars == <<chat_messages, quiz_attempts, grade_request, grade_result, grade_calls>>

chatVars == <<chat_request, chat_result>>

progressVars == <<user_topic_progress, learning_goals, progress_request, progress_result,
                  progress_calls>>

createVars == <<create_pc, create_result>>

serviceVars == <<chatVars, progressVars, createVars>>

vars == <<pathVars, quizVars, roundTripVars, changeVars, gradeVars, serviceVars>>

TOPICS == <<"t", "o", "p", "i", "c", "s">>
NAME == <<"n", "a", "m", "e">>
COURSE_DURATION == <<"c", "o", "u", "r", "s", "e", "_", "d", "u", "r", "a", "t", "i", "o", "n">>
DESCRIPTION == <<"d", "e", "s", "c", "r", "i", "p", "t", "i", "o", "n">>
DIFFICULTY == <<"d", "i", "f", "f", "i", "c", "u", "l", "t", "y">>
LINKS == <<"l", "i", "n", "k", "s">>
TAGS == <<"t", "a", "g", "s">>

\* texts the code never looks into are kept whole, as one token
LEARNING_PATH_PROMPT == <<"<LEARNING_PATH_PROMPT>">>
REGENRATE_OR_FILTER_JSON == <<"<REGENRATE_OR_FILTER_JSON>">>
ONLY_VALID_JSON == <<". IMPORTANT: Return ONLY valid JSON with 'topics' field ...">>
EMPTY_RESPONSE_MESSAGE == PyStr(<<"I'm sorry, I couldn't generate a response. ...">>)
INVALID_PATH_MESSAGE == PyStr(<<"I'm sorry, I couldn't generate a valid learning path. ...">>)
GENERATED_LESSON == PyStr(<<"Generated Lesson">>)
INTERMEDIATE == PyStr(<<"Intermediate">>)
LESSON_ID == "lesson_<utcnow>"
USERNAME == "alice"

PATH_MARKER == <<"l", "e", "a", "r", "n", "i", "n", "g", " ", "p", "a", "t", "h", " ", "f", "o", "r", " ">>

\* the request texts of the model
UserPrompts ==
    { PATH_MARKER \o <<"g", "o">>,
      <<"g", "o", " ", "p", "l", "a", "n">> }

\* f"{a} {b}"
Join(a, b) == a \o <<" ">> \o b

\* mutant: the retry repeats the prompt of attempt 0
modified_prompt_same(up, rc) == Join(up, LEARNING_PATH_PROMPT)

\* the prompt of the attempt with this retry_count (lines 19-23)
modified_prompt(up, rc) ==
    IF rc > 0
    THEN Join(up, REGENRATE_OR_FILTER_JSON) \o ONLY_VALID_JSON
    ELSE Join(up, LEARNING_PATH_PROMPT)

\* the "empty or invalid response" test of line 29
IsEmptyResponse(rc) == ~Truthy(rc) \/ ~IsStr(rc) \/ Len(strip(rc[2])) = 0

\* lines 76-80: a falsy extract_json result sends the text to json.loads
RecoverFrom(cleaned_content, learning_path_json) ==
    IF Truthy(learning_path_json) THEN [ok |-> TRUE, v |-> learning_path_json]
    ELSE json_loads(cleaned_content)

\* lines 70-73: extract_json of the stripped text
RecoverText(cleaned_content) ==
    RecoverFrom(cleaned_content, extract_json(PyStr(cleaned_content)))

\* lines 70-80 for the output rc; ok = FALSE stands for "Could not parse JSON"
Recover(rc) ==
    IF IsEmptyResponse(rc) THEN [ok |-> FALSE, v |-> PyNone]
    ELSE RecoverText(strip(rc[2]))

\* mutant: 'topics' present, of any type
HasTopicsList_anyType(v) == HasKey(v, TOPICS)

\* lines 86 and 160: the 'topics' test
HasTopicsList(v) == HasKey(v, TOPICS) /\ IsList(Get(v, TOPICS, PyNone))

\* lines 29 and 76-89: what an attempt's output rc is taken for, rec being
\* what was recovered from it
KindOf(rc, rec) ==
    IF IsEmptyResponse(rc) THEN "empty"
    ELSE IF ~rec.ok THEN "unparsable"
    ELSE IF ~IsDict(rec.v) THEN "not_object"
    ELSE IF ~HasTopicsList(rec.v) THEN "bad_topics"
    ELSE "valid"

Classify(rc) == KindOf(rc, Recover(rc))

\* user_prompt.split("learning path for ")[-1]
AfterLastMarker(up) ==
    LET hits == {j \in 1..Len(up) : StartsWithAt(up, j, PATH_MARKER)}
    IN  IF hits = {} THEN up
        ELSE SubSeq(up, (CHOOSE j \in hits : \A k \in hits : k <= j) + Len(PATH_MARKER), Len(up))

\* text.split(" ")[0]
FirstWord(t) ==
    LET sp == FindFrom(t, 1, <<" ">>)
    IN  IF sp = 0 THEN t ELSE SubSeq(t, 1, sp - 1)

\* lines 95-99 of learning_path.py, line 89 of learning_paths.py
LessonTopic(doc, up, var) ==
    LET name == Get(doc, NAME, PyStr(<<>>))
        fromPrompt ==
            IF var = "learning_path" /\ FindFrom(up, 1, PATH_MARKER) = 0 THEN <<>>
            ELSE FirstWord(AfterLastMarker(up))
    IN  IF Truthy(name) THEN name
        ELSE IF Len(fromPrompt) > 0 THEN PyStr(fromPrompt)
        ELSE GENERATED_LESSON

\* lesson_doc, lines 102-119 (the wall-clock fields are left out)
LessonDoc(doc, up, var, duration) ==
    [ lesson_id |-> LESSON_ID,
      title |-> LessonTopic(doc, up, var),
      description |-> Get(doc, DESCRIPTION, PyStr(<<>>)),
      lesson_type |-> "video",
      subject |-> LessonTopic(doc, up, var),
      difficulty |-> Get(doc, DIFFICULTY, INTERMEDIATE),
      duration |-> duration,
      is_public |-> TRUE,
      created_by |-> USERNAME,
      resources |-> Get(doc, LINKS, PyArr(<<>>)),
      tags |-> Get(doc, TAGS, PyArr(<<>>)),
      learning_path |-> doc,
      status |-> "pending_avatar" ]

\* int(doc.get("course_duration", "30").split()[0])
Duration(doc) == FirstTokenInt(Get(doc, COURSE_DURATION, PyStr(<<"3", "0">>)))

\* mutant: the serialized text is returned in place of the document
SuccessResult_text(doc) ==
    [response |-> "JSON", type |-> "learning_path", content |-> PyStr(json_dumps(doc)),
     lesson_id |-> LESSON_ID]

\* response_data, lines 137-143
SuccessResult(doc) ==
    [response |-> "JSON", type |-> "learning_path", content |-> doc, lesson_id |-> LESSON_ID]

\* mutant: one apology for every failure
ErrorResult_oneMessage(error_message) ==
    [response |-> "ERROR", type |-> "content", content |-> INVALID_PATH_MESSAGE]

\* the returned error, lines 58-63 and 252-257
ErrorResult(error_message) ==
    [response |-> "ERROR", type |-> "content", content |-> error_message]

\* an exception that leaves the call
Raised(exc) == [response |-> "RAISED", type |-> exc]

NoResult == [response |-> "NONE", type |-> "none"]

\* response_message, lines 130-135
ResponseMessage(doc) ==
    [role |-> "assistant", content |-> PyStr(json_dumps(doc)), type |-> "learning_path"]

\* error_response, lines 47-52 and 241-246
ErrorMessage(error_message) ==
    [role |-> "assistant", content |-> error_message, type |-> "content"]

\* a key or a string as it is written in JSON text
Quoted(chars) == <<QUOTE>> \o chars \o <<QUOTE>>

\* {"topics": []} with the members given before it
PathText(members) == <<"{">> \o members \o Quoted(TOPICS) \o <<":", " ", "[", "]", "}">>

DurationMember(valueText) == Quoted(COURSE_DURATION) \o <<":", " ">> \o valueText \o <<",", " ">>

\* what generate_response may hand back: any value, any text
GenOutputs ==
    { PyNone,
      PyNum(<<"5">>),
      PyStr(<<>>),
      PyStr(<<" ", NL>>),
      PyStr(<<"o", "k">>),
      PyStr(<<"[", "1", "]">>),
      PyStr(<<"{", "}">>),
      PyStr(<<"{">> \o Quoted(TOPICS) \o <<":", " ", "{", "}", "}">>),
      PyStr(PathText(<<>>)),
      PyStr(PathText(Quoted(NAME) \o <<":", " ">> \o Quoted(<<"g", "o">>) \o <<",", " ">>
                     \o DurationMember(Quoted(<<"4", " ", "w">>)))),
      PyStr(PathText(DurationMember(Quoted(<<>>)))),
      PyStr(PathText(DurationMember(Quoted(<<"x">>)))),
      PyStr(PathText(DurationMember(<<"4">>))),
      PyStr(FENCE \o JSON_TAG \o <<NL>> \o PathText(<<>>) \o <<NL>> \o FENCE \o <<" ", "o", "k">>) }

PathInit ==
    /\ pc = "idle"
    /\ variant = "learning_path"
    /\ user_prompt = <<>>
    /\ max_retries = 3
    /\ retry_count = 0
    /\ prompts = <<>>
    /\ outstanding = 0
    /\ response_content = PyNone
    /\ classified = "none"
    /\ result = NoResult
    /\ lessons = <<>>
    /\ chat_history = <<>>
    /\ stores = 0
    /\ runs = 0

\* a top-level call process_learning_path_query(user_prompt, ..., retry_count=0,
\* max_retries=n)
Invoke(up, n, var) ==
    /\ pc \in {"idle", "done"}
    /\ runs < MaxRuns
    /\ runs' = runs + 1
    /\ pc' = "attempt"
    /\ variant' = var
    /\ user_prompt' = up
    /\ max_retries' = n
    /\ retry_count' = 0
    /\ prompts' = <<>>
    /\ response_content' = PyNone
    /\ classified' = "none"
    /\ result' = NoResult
    /\ stores' = 0
    /\ UNCHANGED <<outstanding, lessons, chat_history, quizVars, roundTripVars,
                   changeVars, gradeVars, serviceVars>>

\* mutant: the next call is issued while one is still out
MayCall_overlapping == pc \in {"attempt", "generating"}

\* where a generate_response call may be issued: at the entry of an attempt
MayCall == pc = "attempt"

\* lines 19-25: the prompt is built and generate_response is called
CallGenerator ==
    /\ MayCall
    /\ prompts' = Append(prompts, modified_prompt(user_prompt, retry_count))
    /\ outstanding' = outstanding + 1
    /\ pc' = "generating"
    /\ UNCHANGED <<variant, user_prompt, max_retries, retry_count, response_content,
                   classified, result, lessons, chat_history, stores, runs,
                   quizVars, roundTripVars,
                   changeVars, gradeVars, serviceVars>>

\* generate_response returns
GeneratorReturns(out) ==
    /\ pc = "generating"
    /\ response_content' = out
    /\ outstanding' = outstanding - 1
    /\ pc' = "respond"
    /\ UNCHANGED <<variant, user_prompt, max_retries, retry_count, prompts,
                   classified, result, lessons, chat_history, stores, runs,
                   quizVars, roundTripVars,
                   changeVars, gradeVars, serviceVars>>

\* generate_response raises: nothing around line 25 catches it
GeneratorRaises ==
    /\ pc = "generating"
    /\ outstanding' = outstanding - 1
    /\ pc' = "done"
    /\ result' = Raised("GeneratorError")
    /\ classified' = "none"
    /\ UNCHANGED <<variant, user_prompt, max_retries, retry_count, prompts, response_content,
                   lessons, chat_history, stores, runs, quizVars, roundTripVars,
                   changeVars, gradeVars, serviceVars>>

\* mutant: off by one, one attempt too many
AttemptsRemain_offByOne(rc, n) == rc < n

\* mutant: no attempt is ever repeated
AttemptsRemain_never(rc, n) == FALSE

\* the test "retry_count < max_retries - 1" of lines 31 and 225
AttemptsRemain(rc, n) == rc < n - 1

\* mutant: the failed attempt stores its error message before the next one
Retry_storing ==
    /\ pc' = "attempt"
    /\ retry_count' = retry_count + 1
    /\ chat_history' = Append(chat_history, ErrorMessage(INVALID_PATH_MESSAGE))
    /\ stores' = stores + 1
    /\ UNCHANGED <<result, lessons>>

\* the recursive call with retry_count + 1
Retry ==
    /\ pc' = "attempt"
    /\ retry_count' = retry_count + 1
    /\ UNCHANGED <<result, lessons, chat_history, stores>>

\* the final fallback: the error message is stored and returned
Fail(error_message) ==
    /\ pc' = "done"
    /\ chat_history' = Append(chat_history, ErrorMessage(error_message))
    /\ stores' = stores + 1
    /\ result' = ErrorResult(error_message)
    /\ UNCHANGED <<retry_count, lessons>>

RetryOrFail(error_message) ==
    IF AttemptsRemain(retry_count, max_retries) THEN Retry ELSE Fail(error_message)

\* an exception no handler of the function catches
Propagate(exc) ==
    /\ pc' = "done"
    /\ result' = Raised(exc)
    /\ UNCHANGED <<retry_count, lessons, chat_history, stores>>

\* lines 121-149: the lesson is inserted, the message stored, the data returned
StoreAndReturn(doc, duration) ==
    /\ pc' = "done"
    /\ lessons' = Append(lessons, LessonDoc(doc, user_prompt, variant, duration))
    /\ chat_history' = Append(chat_history, ResponseMessage(doc))
    /\ stores' = stores + 1
    /\ result' = SuccessResult(doc)
    /\ UNCHANGED retry_count

\* lines 163-220: the lesson built a second time, inside the handler
HandlerLesson(parsedData, d) ==
    IF d.kind = "ok" THEN StoreAndReturn(parsedData, d.n) ELSE Propagate(d.kind)

\* the handler of (json.JSONDecodeError, ValueError): lines 151-257 of
\* learning_path.py, lines 141-168 of learning_paths.py
ExceptHandler(parsedData) ==
    IF /\ variant = "learning_path"
       /\ Truthy(parsedData) /\ IsDict(parsedData) /\ HasTopicsList(parsedData)
    THEN HandlerLesson(parsedData, Duration(parsedData))
    ELSE RetryOrFail(INVALID_PATH_MESSAGE)

\* lines 91-149: the lesson of a validated document; d is its duration
ValidatedLesson(doc, d, parsedData) ==
    IF d.kind = "ok" THEN StoreAndReturn(doc, d.n)
    ELSE IF d.kind = "ValueError" THEN ExceptHandler(parsedData)
    ELSE Propagate(d.kind)

\* lines 29-257 once the output is classified
RespondAs(kind, doc, parsedData) ==
    /\ classified' = kind
    /\ IF kind = "empty" THEN RetryOrFail(EMPTY_RESPONSE_MESSAGE)
       ELSE IF kind = "valid" THEN ValidatedLesson(doc, Duration(doc), parsedData)
       ELSE ExceptHandler(parsedData)

Respond(rec, parsedData) == RespondAs(KindOf(response_content, rec), rec.v, parsedData)

\* lines 29-257: everything after generate_response has returned
HandleResponse ==
    /\ pc = "respond"
    /\ Respond(Recover(response_content), extract_json(response_content))
    /\ UNCHANGED <<variant, user_prompt, max_retries, prompts, outstanding,
                   response_content, runs, quizVars, roundTripVars,
                   changeVars, gradeVars, serviceVars>>

Next ==
    \/ \E up \in UserPrompts, n \in 1..MaxRetriesBound,
          var \in {"learning_path", "learning_paths"} : Invoke(up, n, var)
    \/ CallGenerator
    \/ \E out \in GenOutputs : GeneratorReturns(out)
    \/ GeneratorRaises
    \/ HandleResponse

----------------------------------------------------------------------------
(* generate_ai_quiz: ai_quiz_generator.py *)

\* the most generate_ai_quiz requests of one behaviour
MaxQuizCalls == 2

\* the last second the clock reaches
MaxClock == 1

QUIZ_DATA == <<"q", "u", "i", "z", "_", "d", "a", "t", "a">>
QUESTIONS == <<"q", "u", "e", "s", "t", "i", "o", "n", "s">>

Usernames == {"alice", "bob"}

\* generate_ai_response raised: its HTTPException
AiServiceError == <<"raise", "HTTPException">>

\* json.loads succeeded: its value; it raised JSONDecodeError: None
ParsedOrNone(r) == IF r.ok THEN r.v ELSE PyNone

\* the last index of c in s, 0 when there is none
LastIndexOf(s, c) ==
    LET hits == {j \in 1..Len(s) : s[j] = c}
    IN  IF hits = {} THEN 0 ELSE CHOOSE j \in hits : \A k \in hits : k <= j

\* re.search(r'\{[\s\S]*\}', response): from the first '{' to the last '}'
GreedyMatch(response, open, close) ==
    IF open = 0 \/ close < open THEN <<>> ELSE SubSeq(response, open, close)

\* lines 169-177: the match, when there is one, through json.loads
RegexParse(json_str) ==
    IF Len(json_str) = 0 THEN PyNone ELSE ParsedOrNone(json_loads(json_str))

\* lines 159-163 and 164-177: the direct parse r, then the pattern
DirectOrRegex(response, r) ==
    IF r.ok THEN r.v
    ELSE RegexParse(GreedyMatch(response, FindFrom(response, 1, <<"{">>),
                                LastIndexOf(response, "}")))

StrippedJson(response) == DirectOrRegex(response, json_loads(response))

\* extract_json_from_response, lines 155-184; strip() of a value that is no
\* string raises, and the last handler turns that into None
extract_json_from_response(response) ==
    IF ~IsStr(response) THEN PyNone ELSE StrippedJson(strip(response[2]))

\* the structure test of line 241, with the AttributeError of a .get on a
\* value that is no dict
QuizCheck(quiz_json) ==
    IF ~IsDict(quiz_json) THEN "AttributeError"
    ELSE IF ~Truthy(Get(quiz_json, QUIZ_DATA, PyNone)) THEN "invalid_structure"
    ELSE IF ~IsDict(Get(quiz_json, QUIZ_DATA, PyNone)) THEN "AttributeError"
    ELSE IF ~Truthy(Get(Get(quiz_json, QUIZ_DATA, PyNone), QUESTIONS, PyNone))
         THEN "invalid_structure"
    ELSE "ok"

\* f"quiz_{int(datetime.datetime.utcnow().timestamp())}"
QuizId(t) == <<"quiz", t>>

\* quiz_data, lines 253-259 (created_at is left out)
QuizRecord(quiz_id, username, quiz_json) ==
    [quiz_id |-> quiz_id, username |-> username, quiz_json |-> quiz_json, status |-> "active"]

\* update_one({"quiz_id", "username"}, {"$set": quiz_data}, upsert=True)
Upsert(coll, rec) ==
    LET hits == {k \in 1..Len(coll) :
                    coll[k].quiz_id = rec.quiz_id /\ coll[k].username = rec.username}
    IN  IF hits = {} THEN Append(coll, rec)
        ELSE [coll EXCEPT ![CHOOSE k \in hits : \A j \in hits : k <= j] = rec]

\* every exception of the handler leaves as HTTP 500, lines 274-276
ServerError(detail) == [status |-> "500", detail |-> detail]

\* the quiz is returned, line 272
QuizReturned(quiz_json) == [status |-> "200", body |-> quiz_json]

NoQuizResult == [status |-> "none"]

\* why the request with this response and this extracted value is turned
\* down, "ok" when it is not: lines 226-246
QuizVerdict(ai_response, quiz_json) ==
    IF ai_response = AiServiceError THEN "ai_service_error"
    ELSE IF ~Truthy(ai_response) THEN "no_response"
    ELSE IF ~Truthy(quiz_json) THEN "no_json"
    ELSE QuizCheck(quiz_json)

\* lines 248-272 when the verdict is "ok", lines 274-276 otherwise
QuizOutcome(username, quiz_json, verdict) ==
    IF verdict = "ok"
    THEN /\ quizzes' = Upsert(quizzes, QuizRecord(QuizId(now), username, quiz_json))
         /\ quiz_result' = QuizReturned(quiz_json)
    ELSE /\ quiz_result' = ServerError(verdict)
         /\ UNCHANGED quizzes

QuizExtracted(username, ai_response, quiz_json) ==
    QuizOutcome(username, quiz_json, QuizVerdict(ai_response, quiz_json))

\* a quiz document with this value of 'questions', as the text of a response
QuizText(questions) ==
    json_dumps(PyObj(<< <<QUIZ_DATA, PyObj(<< <<QUESTIONS, questions>> >>)>> >>))

\* one question, and another
QuestionA == PyObj(<< <<<<"q">>, PyStr(<<"a">>)>> >>)
QuestionB == PyObj(<< <<<<"q">>, PyStr(<<"b">>)>> >>)

\* what generate_ai_response may hand back: a text, or its HTTPException
AiResponses ==
    { AiServiceError,
      PyStr(<<>>),
      PyStr(<<"o", "k">>),
      PyStr(<<"[", "1", "]">>),
      PyStr(<<"{", "}">>),
      PyStr(<<"{", "o", "k">>),
      PyStr(json_dumps(PyObj(<< <<QUIZ_DATA, PyStr(<<"x">>)>> >>))),
      PyStr(json_dumps(PyObj(<< <<QUIZ_DATA, PyObj(<<>>)>> >>))),
      PyStr(QuizText(PyArr(<<>>))),
      PyStr(QuizText(PyArr(<<QuestionA>>))),
      PyStr(<<"o", "k", " ">> \o QuizText(PyArr(<<QuestionB>>)) \o <<" ", "!">>),
      PyStr(QuizText(PyStr(<<"a", "b", "c">>))),
      PyStr(QuizText(QuestionA)),
      PyStr(QuizText(PyNum(<<"5">>))) }

QuizInit ==
    /\ now = 0
    /\ quizzes = <<>>
    /\ quiz_result = NoQuizResult
    /\ quiz_calls = 0

\* one second passes
Tick ==
    /\ now < MaxClock
    /\ now' = now + 1
    /\ UNCHANGED <<quizzes, quiz_result, quiz_calls, pathVars, roundTripVars, changeVars,
                   gradeVars, serviceVars>>

\* POST /generate: the whole handler, lines 209-276
generate_ai_quiz(username, ai_response) ==
    /\ quiz_calls < MaxQuizCalls
    /\ quiz_calls' = quiz_calls + 1
    /\ QuizExtracted(username, ai_response, extract_json_from_response(ai_response))
    /\ UNCHANGED <<now, pathVars, roundTripVars, changeVars, gradeVars, serviceVars>>

QuizNext ==
    \/ Tick
    \/ \E username \in Usernames, ai_response \in AiResponses :
          generate_ai_quiz(username, ai_response)

----------------------------------------------------------------------------
(* extract_json after json.dumps: the round trip of a document *)

\* the most pieces a string value of a document is made of
MaxAtoms == 3

\* the pieces: the braces, a fence, a digit
Atoms == { <<"{">>, <<"}">>, FENCE, <<"1">> }

RECURSIVE AtomStrings(_)
\* the strings of at most n pieces
AtomStrings(n) ==
    IF n = 0 THEN { <<>> }
    ELSE AtomStrings(n - 1) \cup { s \o a : s \in AtomStrings(n - 1), a \in Atoms }

KEY_A == <<"a">>
KEY_B == <<"b">>

\* the documents: {}, {"a": s} and {"a": {"b": s}}
Documents ==
    { PyObj(<<>>) }
      \cup { PyObj(<< <<KEY_A, PyStr(s)>> >>) : s \in AtomStrings(MaxAtoms) }
      \cup { PyObj(<< <<KEY_A, PyObj(<< <<KEY_B, PyStr(s)>> >>)>> >>) : s \in AtomStrings(MaxAtoms) }

RoundTripIdle ==
    /\ document = PyNone
    /\ serialized = <<>>
    /\ extracted = PyNone
    /\ stage = "idle"

RoundTripInit ==
    /\ document \in Documents
    /\ serialized = <<>>
    /\ extracted = PyNone
    /\ stage = "document"

\* json.dumps(document)
Serialize ==
    /\ stage = "document"
    /\ serialized' = json_dumps(document)
    /\ stage' = "serialized"
    /\ UNCHANGED <<document, extracted, pathVars, quizVars, changeVars, gradeVars, serviceVars>>

\* extract_json(serialized)
Extract ==
    /\ stage = "serialized"
    /\ extracted' = extract_json(PyStr(serialized))
    /\ stage' = "extracted"
    /\ UNCHANGED <<document, serialized, pathVars, quizVars, changeVars, gradeVars, serviceVars>>

ExtractNext == Serialize \/ Extract

----------------------------------------------------------------------------
(* extract_json of a text and of the same text with something around it *)

KEY_C == <<"c">>

\* {"a": 1}, the object the arrays hold
SmallObject == PyObj(<< <<KEY_A, PyNum(<<"1">>)>> >>)

\* the JSON values whose texts are extracted: the documents, objects with a
\* second nested object {"a": {"b": s}, "c": {}}, and values that are no object
JsonValues ==
    Documents
      \cup { PyObj(<< <<KEY_A, PyObj(<< <<KEY_B, PyStr(s)>> >>)>>, <<KEY_C, PyObj(<<>>)>> >>) :
               s \in AtomStrings(MaxAtoms) }
      \cup { SmallObject, PyArr(<<SmallObject>>), PyArr(<<PyNum(<<"1">>)>>),
             PyNum(<<"5">>), PyStr(<<"x">>), PyNone }

\* an opening fence: with the json tag, or bare
FenceTags == { JSON_TAG, <<>> }

\* trailing texts that are no JSON
Noise ==
    { <<" ", "o", "k">>,
      <<" ", "{">>,
      <<" ", "}">>,
      <<" ", "}", "{">>,
      <<" ">> \o FENCE,
      FENCE \o <<"x">> \o FENCE,
      <<" ">> \o FENCE \o <<"1">> \o FENCE }

\* leading texts with a '{' that starts no JSON object: a balanced span that
\* does not parse, a brace that is never closed, two of them
Prefixes ==
    { <<"{", "x", "}", " ">>,
      <<"{", " ", "x", " ">>,
      <<"{", "{", " ">>,
      <<"x", " ">> }

ChangeIdle ==
    /\ other_text = <<>>
    /\ other_result = PyNone
    /\ change = "none"

\* the text inside triple-backtick fences
WrapInFence(tag) ==
    /\ stage = "extracted"
    /\ other_text' = FENCE \o tag \o <<NL>> \o serialized \o <<NL>> \o FENCE
    /\ change' = "fenced"
    /\ stage' = "changed"
    /\ UNCHANGED <<document, serialized, extracted, other_result, pathVars, quizVars,
                   gradeVars, serviceVars>>

\* the text followed by text that is no JSON
AppendNoise(s) ==
    /\ stage = "extracted"
    /\ other_text' = serialized \o s
    /\ change' = "noise"
    /\ stage' = "changed"
    /\ UNCHANGED <<document, serialized, extracted, other_result, pathVars, quizVars,
                   gradeVars, serviceVars>>

\* the text after a '{' that starts no JSON object
PrependCandidate(p) ==
    /\ stage = "extracted"
    /\ other_text' = p \o serialized
    /\ change' = "prefix"
    /\ stage' = "changed"
    /\ UNCHANGED <<document, serialized, extracted, other_result, pathVars, quizVars,
                   gradeVars, serviceVars>>

\* extract_json(other_text)
ExtractOther ==
    /\ stage = "changed"
    /\ other_result' = extract_json(PyStr(other_text))
    /\ stage' = "compared"
    /\ UNCHANGED <<document, serialized, extracted, other_text, change, pathVars, quizVars,
                   gradeVars, serviceVars>>

ScanDocument ==
    /\ document \in JsonValues
    /\ serialized = <<>>
    /\ extracted = PyNone
    /\ stage = "document"

ScanNext ==
    \/ Serialize
    \/ Extract
    \/ \E tag \in FenceTags : WrapInFence(tag)
    \/ \E s \in Noise : AppendNoise(s)
    \/ \E p \in Prefixes : PrependCandidate(p)
    \/ ExtractOther

----------------------------------------------------------------------------
(* grading: submit_ai_quiz and calculate_fallback_score of                  *)
(* ai_quiz_generator.py, submit_topic_quiz of api/learning_path_api.py      *)

\* bounds of the grading runs
MaxQuestions == 4
MaxGradeCalls == 1

LowerLetters ==
    <<"a", "b", "c", "d", "e", "f", "g", "h", "i", "j", "k", "l", "m",
      "n", "o", "p", "q", "r", "s", "t", "u", "v", "w", "x", "y", "z">>

UpperLetters ==
    <<"A", "B", "C", "D", "E", "F", "G", "H", "I", "J", "K", "L", "M",
      "N", "O", "P", "Q", "R", "S", "T", "U", "V", "W", "X", "Y", "Z">>

\* the character of `to` at the place c has in `from`, c itself when it has none
MapChar(c, from, to) ==
    IF \E k \in 1..Len(from) : from[k] = c
    THEN to[CHOOSE k \in 1..Len(from) : from[k] = c]
    ELSE c

\* str.upper()
upper(s) == [i \in 1..Len(s) |-> MapChar(s[i], LowerLetters, UpperLetters)]

\* str.lower()
lower(s) == [i \in 1..Len(s) |-> MapChar(s[i], UpperLetters, LowerLetters)]

\* \w
WordChars ==
    {LowerLetters[k] : k \in 1..Len(LowerLetters)}
      \cup {UpperLetters[k] : k \in 1..Len(UpperLetters)}
      \cup DigitChars \cup {"_"}

RECURSIVE RunEnd(_, _, _, _)
\* the last index of the run that starts at i, of characters in cls
\* (inside = TRUE) or not in cls (inside = FALSE)
RunEnd(s, i, cls, inside) ==
    IF i + 1 <= Len(s) /\ (s[i + 1] \in cls) = inside
    THEN RunEnd(s, i + 1, cls, inside)
    ELSE i

RECURSIVE Runs(_, _, _, _)
\* the set of the maximal runs from index i on
Runs(s, i, cls, inside) ==
    IF i > Len(s) THEN {}
    ELSE IF (s[i] \in cls) # inside THEN Runs(s, i + 1, cls, inside)
    ELSE {SubSeq(s, i, RunEnd(s, i, cls, inside))}
            \cup Runs(s, RunEnd(s, i, cls, inside) + 1, cls, inside)

\* set(re.findall(r'\b\w{3,}\b', text))
WordTokens(text) == {w \in Runs(text, 1, WordChars, TRUE) : Len(w) >= 3}

\* set(text.split())
split(text) == Runs(text, 1, WS, FALSE)

\* needle in haystack
Contains(haystack, needle) ==
    needle = <<>> \/ FindFrom(haystack, 1, needle) # 0

\* stop_words, learning_path_api.py line 486
stop_words ==
    { <<"t", "h", "e">>, <<"a", "n", "d">>, <<"a", "r", "e">>, <<"f", "o", "r">>,
      <<"w", "i", "t", "h">>, <<"t", "h", "i", "s">>, <<"t", "h", "a", "t">>, <<"f", "r", "o", "m">>,
      <<"t", "h", "e", "y">>, <<"h", "a", "v", "e">>, <<"w", "i", "l", "l">>, <<"c", "a", "n">>,
      <<"n", "o", "t">>, <<"b", "u", "t">>, <<"y", "o", "u">>, <<"a", "l", "l">>,
      <<"a", "n", "y">>, <<"h", "a", "d">>, <<"h", "e", "r">>, <<"w", "a", "s">>,
      <<"o", "n", "e">>, <<"o", "u", "r">>, <<"o", "u", "t">>, <<"d", "a", "y">>,
      <<"g", "e", "t">>, <<"u", "s", "e">>, <<"m", "a", "n">>, <<"n", "e", "w">>,
      <<"n", "o", "w">>, <<"o", "l", "d">>, <<"s", "e", "e">>, <<"h", "i", "m">>,
      <<"t", "w", "o">>, <<"h", "o", "w">>, <<"i", "t", "s">>, <<"w", "h", "o">>,
      <<"o", "i", "l">>, <<"s", "i", "t">>, <<"s", "e", "t">>, <<"r", "u", "n">>,
      <<"c", "u", "t">>, <<"e", "n", "d">>, <<"w", "h", "y">>, <<"t", "r", "y">>,
      <<"p", "u", "t">>, <<"s", "a", "y">>, <<"s", "h", "e">>, <<"m", "a", "y">>,
      <<"w", "a", "y">>, <<"t", "o", "o">>, <<"o", "w", "n">>, <<"y", "e", "t">>,
      <<"o", "f", "f">>, <<"f", "a", "r">>, <<"a", "s", "k">>, <<"l", "e", "t">>,
      <<"b", "i", "g">>, <<"g", "o", "t">>, <<"t", "o", "p">>, <<"f", "e", "w">> }

\* the field names and the question types
TYPE == <<"t", "y", "p", "e">>
CORRECT_ANSWER == <<"c", "o", "r", "r", "e", "c", "t", "_", "a", "n", "s", "w", "e", "r">>
EXPLANATION == <<"e", "x", "p", "l", "a", "n", "a", "t", "i", "o", "n">>
QUESTION_NUMBER == <<"q", "u", "e", "s", "t", "i", "o", "n", "_", "n", "u", "m", "b", "e", "r">>
QUESTION == <<"q", "u", "e", "s", "t", "i", "o", "n">>
OPTIONS == <<"o", "p", "t", "i", "o", "n", "s">>
MCQ == PyStr(<<"m", "c", "q">>)
TRUE_FALSE == PyStr(<<"t", "r", "u", "e", "_", "f", "a", "l", "s", "e">>)
SHORT_ANSWER == PyStr(<<"s", "h", "o", "r", "t", "_", "a", "n", "s", "w", "e", "r">>)

\* the option letters
LETTER_A == <<"A">>
LETTER_B == <<"B">>

\* not (user_answer and user_answer.strip())
IsBlank(user_answer) == strip(user_answer) = <<>>

\* s[0] if s else ""
FirstLetter(s) == IF s = <<>> THEN <<>> ELSE <<s[1]>>

\* the meaningful words of a text, lines 482-488
Keywords(text) == WordTokens(lower(text)) \ stop_words
RECURSIVE GCD(_, _)
GCD(a, b) == IF b = 0 THEN a ELSE GCD(b, a % b)

\* the number n/d, as numerator and denominator in lowest terms
Ratio(n, d) == <<n \div GCD(n, d), d \div GCD(n, d)>>

\* x >= y for a ratio x and an integer y
AtLeast(x, y) == x[1] >= y * x[2]

\* (correct / total) * 100: the float is taken for the number it stands for
Percentage(correct, total) == Ratio(100 * correct, total)

\* round(x, 1): the nearest tenth, a tie going to the even one
round1(x) ==
    LET q == (10 * x[1]) \div x[2]
        r == (10 * x[1]) % x[2]
    IN  IF 2 * r > x[2] \/ (2 * r = x[2] /\ q % 2 = 1)
        THEN Ratio(q + 1, 10)
        ELSE Ratio(q, 10)

\* the int 0 of "... if total_questions > 0 else 0"
ZERO == Ratio(0, 1)

\* every keyword asked for
KeywordThreshold_all(n) == Ratio(n, 1)

\* max(1, len(correct_words) * 0.5), line 493
KeywordThreshold(n) == IF AtLeast(Ratio(n, 2), 1) THEN Ratio(n, 2) ELSE Ratio(1, 1)

\* matches >= threshold, line 494
MeetsThreshold(matches, threshold) == matches * threshold[2] >= threshold[1]

\* the question types whose matching reads correct_answer
MatchedTypes == {MCQ, TRUE_FALSE, SHORT_ANSWER}

\* 'bool' object has no attribute 'strip'
AttributeError == [raised |-> "AttributeError"]

\* question["correct_answer"] of a question without the field
KeyError == [raised |-> "KeyError"]

\* HTTPException(status_code, detail)
HttpError(status, detail) == [status |-> status, detail |-> detail]

\* the handler returned
HttpOk(handler, body) == [status |-> "200", handler |-> handler, body |-> body]

\* quizzes_collection.find_one({"quiz_id": quiz_id, "username": username}):
\* the first such document as a sequence of length one, or the empty sequence
FindQuiz(coll, quiz_id, username) ==
    LET hits == SelectSeq(coll, LAMBDA d : d.quiz_id = quiz_id /\ d.username = username)
    IN  IF hits = <<>> THEN <<>> ELSE <<Head(hits)>>

\* chat_messages_collection.find_one({"message_id": quiz_id, "username":
\* username, "sender": "AI", "quiz_data": {"$exists": True}}), lines 416-421
FindQuizMessage(coll, quiz_id, username) ==
    LET hits == SelectSeq(coll, LAMBDA m : /\ m.message_id = quiz_id
                                          /\ m.username = username
                                          /\ m.sender = "AI")
    IN  IF hits = <<>> THEN <<>> ELSE <<Head(hits)>>

\* the text of a str; the matching reads the text of no other value, it has
\* raised before
TextOf(v) == IF IsStr(v) THEN v[2] ELSE <<>>

\* the number of entries marked correct
CountCorrect(flags) == Cardinality({i \in 1..Len(flags) : flags[i]})

----------------------------------------------------------------------------
(* submit_topic_quiz, api/learning_path_api.py lines 387-550 *)

\* the type-specific matching without the test for an empty answer before it
TopicIsCorrect_unguarded(question_type, correct_answer, user_answer) ==
    IF question_type \in {MCQ, TRUE_FALSE}
    THEN FirstLetter(upper(strip(strip(user_answer)))) = FirstLetter(upper(strip(correct_answer)))
    ELSE IF question_type = SHORT_ANSWER
    THEN IF Keywords(correct_answer) # {}
         THEN MeetsThreshold(Cardinality(Keywords(strip(user_answer)) \cap Keywords(correct_answer)),
                             KeywordThreshold(Cardinality(Keywords(correct_answer))))
         ELSE \/ Contains(lower(correct_answer), lower(strip(user_answer)))
              \/ Contains(lower(strip(user_answer)), lower(correct_answer))
    ELSE FALSE

\* is_correct of one answer, lines 449-499; correct_answer and user_answer
\* are texts
TopicIsCorrect(question_type, correct_answer, user_answer) ==
    IF IsBlank(user_answer) THEN FALSE
    ELSE IF question_type \in {MCQ, TRUE_FALSE}
    THEN FirstLetter(upper(strip(strip(user_answer)))) = FirstLetter(upper(strip(correct_answer)))
    ELSE IF question_type = SHORT_ANSWER
    THEN IF Keywords(correct_answer) # {}
         THEN MeetsThreshold(Cardinality(Keywords(strip(user_answer)) \cap Keywords(correct_answer)),
                             KeywordThreshold(Cardinality(Keywords(correct_answer))))
         ELSE \/ Contains(lower(correct_answer), lower(strip(user_answer)))
              \/ Contains(lower(strip(user_answer)), lower(correct_answer))
    ELSE FALSE

\* one entry of detailed_results, lines 443-510, or the AttributeError of
\* correct_answer.strip() / correct_answer.lower() on a value that is no str
TopicDetail(question, user_answer, question_number) ==
    LET question_type == Get(question, TYPE, MCQ)
        correct_answer == Get(question, CORRECT_ANSWER, PyStr(<<>>))
    IN  IF ~IsStr(correct_answer) /\ ~IsBlank(user_answer) /\ question_type \in MatchedTypes
        THEN AttributeError
        ELSE [question_number |-> PyInt(question_number),
              user_answer |-> user_answer,
              correct_answer |-> correct_answer,
              is_correct |-> TopicIsCorrect(question_type, TextOf(correct_answer), user_answer),
              explanation |-> Get(question, EXPLANATION, PyStr(<<>>))]

\* score_percentage, line 512
TopicScore(correct_count, total_questions) ==
    IF total_questions > 0 THEN Percentage(correct_count, total_questions) ELSE ZERO

\* the dict returned, lines 537-544
TopicResult(detailed_results) ==
    LET correct_count == CountCorrect([i \in 1..Len(detailed_results) |-> detailed_results[i].is_correct])
        score_percentage == TopicScore(correct_count, Len(detailed_results))
    IN  [success |-> TRUE,
         score_percentage |-> score_percentage,
         correct_answers |-> correct_count,
         total_questions |-> Len(detailed_results),
         passed |-> AtLeast(score_percentage, 80),
         details |-> detailed_results]

\* an update with upsert in the place of the insert
insert_one_upsert(coll, rec) == Upsert(coll, rec)

\* quiz_attempts_collection.insert_one(...), ai_quiz_generator.py line 442 and
\* learning_path_api.py line 533: a new document each time, whatever the
\* collection holds
insert_one(coll, rec) == Append(coll, rec)

\* attempt_doc, lines 518-531 (topic and completed_at are left out)
TopicAttempt(quiz_id, username, answers, topic_result) ==
    [attempt_id |-> <<"attempt", now>>,
     quiz_id |-> quiz_id,
     username |-> username,
     answers |-> answers,
     score |-> topic_result.score_percentage,
     correct_answers |-> topic_result.correct_answers,
     total_questions |-> topic_result.total_questions,
     completed |-> TRUE,
     source |-> "learning_path_topic",
     detailed_results |-> topic_result.details]

\* lines 432-550 once the quiz data is found: the response, and the attempt
\* stored when there is one
TopicGraded(quiz_id, username, answers, questions) ==
    LET detailed_results == [i \in 1..Len(questions) |-> TopicDetail(questions[i], answers[i], i)]
    IN  IF Len(answers) # Len(questions)
        THEN /\ grade_result' = HttpError("400", "Number of answers doesn't match number of questions")
             /\ quiz_attempts' = quiz_attempts
        ELSE IF \E i \in 1..Len(questions) : detailed_results[i] = AttributeError
        THEN /\ grade_result' = ServerError(AttributeError)
             /\ quiz_attempts' = quiz_attempts
        ELSE /\ grade_result' = HttpOk("submit_topic_quiz", TopicResult(detailed_results))
             /\ quiz_attempts' = insert_one(quiz_attempts,
                    TopicAttempt(quiz_id, username, answers, TopicResult(detailed_results)))

\* POST /quiz/submit-for-topic: the whole handler
submit_topic_quiz(quiz_id, answers, username) ==
    /\ grade_calls' = grade_calls + 1
    /\ grade_request' = [handler |-> "submit_topic_quiz", quiz_id |-> quiz_id,
                         answers |-> answers, username |-> username]
    /\ LET quiz_doc == FindQuiz(quizzes, quiz_id, username)
           chat_message == FindQuizMessage(chat_messages, quiz_id, username)
       IN  IF quiz_doc # <<>>
           \* a document of the quizzes collection has no "questions" field
           THEN TopicGraded(quiz_id, username, answers, <<>>)
           ELSE IF chat_message # <<>> /\ Truthy(chat_message[1].quiz_data)
           THEN TopicGraded(quiz_id, username, answers,
                            Get(chat_message[1].quiz_data, QUESTIONS, PyArr(<<>>))[2])
           ELSE /\ grade_result' = HttpError("404", "Quiz data not found")
                /\ quiz_attempts' = quiz_attempts
    /\ UNCHANGED <<chat_messages, quizVars, pathVars, roundTripVars, changeVars, serviceVars>>

----------------------------------------------------------------------------
(* submit_ai_quiz, ai_quiz_generator.py lines 279-454 *)

\* a missing answer taken for the letter A
AnswerAt_letter(answers, i) == IF i <= Len(answers) THEN answers[i] ELSE LETTER_A

\* request.answers[i] if i < len(request.answers) else "", line 371
AnswerAt(answers, i) == IF i <= Len(answers) THEN answers[i] ELSE <<>>

\* is_correct of one answer, lines 377-391; correct_answer and user_answer
\* are texts
AiIsCorrect(question_type, correct_answer, user_answer) ==
    IF IsBlank(user_answer) THEN FALSE
    ELSE IF question_type = MCQ
    THEN upper(strip(user_answer)) = upper(strip(correct_answer))
    ELSE IF question_type = TRUE_FALSE
    THEN lower(strip(user_answer)) = lower(strip(correct_answer))
    ELSE IF question_type = SHORT_ANSWER
    THEN /\ split(lower(correct_answer)) # {}
         /\ 2 * Cardinality(split(lower(user_answer)) \cap split(lower(correct_answer)))
                >= Cardinality(split(lower(correct_answer)))
    ELSE FALSE

\* one entry of detailed_results, lines 370-406, or the AttributeError of
\* correct_answer.strip() / correct_answer.lower() on a value that is no str
AiReview(question, user_answer, i) ==
    LET question_type == Get(question, TYPE, MCQ)
        correct_answer == Get(question, CORRECT_ANSWER, PyStr(<<>>))
    IN  IF ~IsStr(correct_answer) /\ ~IsBlank(user_answer) /\ question_type \in MatchedTypes
        THEN AttributeError
        ELSE [questionNumber |-> Get(question, QUESTION_NUMBER, PyInt(i)),
              question |-> Get(question, QUESTION, PyStr(<<>>)),
              type |-> question_type,
              options |-> Get(question, OPTIONS, PyArr(<<>>)),
              userAnswer |-> user_answer,
              correctAnswer |-> correct_answer,
              isCorrect |-> AiIsCorrect(question_type, TextOf(correct_answer), user_answer),
              explanation |-> Get(question, EXPLANATION, PyStr(<<>>))]

\* score_percentage, line 409
AiScore(correct_answers, total_questions) ==
    IF total_questions > 0 THEN round1(Percentage(correct_answers, total_questions)) ELSE ZERO

\* frontend_result, lines 412-421 (quiz_title and submitted_at are left out)
FrontendResult(quiz_id, detailed_results) ==
    LET correct_answers == CountCorrect([i \in 1..Len(detailed_results) |-> detailed_results[i].isCorrect])
    IN  [id |-> <<"result", now>>,
         quiz_id |-> quiz_id,
         score_percentage |-> AiScore(correct_answers, Len(detailed_results)),
         correct_answers |-> correct_answers,
         total_questions |-> Len(detailed_results),
         answerReview |-> detailed_results]

\* result_data, lines 426-435 (submitted_at is left out)
AiAttempt(quiz_id, username, answers, frontend_result) ==
    [attempt_id |-> <<"attempt", now>>,
     quiz_id |-> quiz_id,
     username |-> username,
     answers |-> answers,
     result |-> frontend_result,
     completed |-> TRUE,
     score |-> frontend_result.score_percentage]

\* update_one({"quiz_id", "username"}, {"$set": {"status": "completed"}})
Complete(coll, quiz_id, username) ==
    LET hits == {k \in 1..Len(coll) : coll[k].quiz_id = quiz_id /\ coll[k].username = username}
    IN  IF hits = {} THEN coll
        ELSE [coll EXCEPT ![CHOOSE k \in hits : \A j \in hits : k <= j].status = "completed"]

\* lines 348-450 once the quiz is found: the response, the attempt stored and
\* the quiz marked completed, or the error of the loop as HTTP 500
AiGraded(quiz_id, username, answers, quiz_json) ==
    LET quiz_info == IF HasKey(quiz_json, QUIZ_DATA) THEN Get(quiz_json, QUIZ_DATA, PyNone)
                     ELSE quiz_json
        questions == Get(quiz_info, QUESTIONS, PyArr(<<>>))[2]
        detailed_results == [i \in 1..Len(questions) |->
                                AiReview(questions[i], AnswerAt(answers, i), i)]
    IN  IF \E i \in 1..Len(questions) : detailed_results[i] = AttributeError
        THEN /\ grade_result' = ServerError(AttributeError)
             /\ UNCHANGED <<quiz_attempts, quizzes>>
        ELSE /\ grade_result' = HttpOk("submit_ai_quiz", FrontendResult(quiz_id, detailed_results))
             /\ quiz_attempts' = insert_one(quiz_attempts,
                    AiAttempt(quiz_id, username, answers, FrontendResult(quiz_id, detailed_results)))
             /\ quizzes' = Complete(quizzes, quiz_id, username)

\* POST /submit: the whole handler. The HTTPException of lines 289 and 346 is
\* caught by "except Exception" (line 452) and leaves as HTTP 500 whose detail
\* is the text of the exception caught. The search of lines 301-340 looks for
\* a "messages" list in the documents of chat_messages, which they do not have.
submit_ai_quiz(quiz_id, answers, username) ==
    /\ grade_calls' = grade_calls + 1
    /\ grade_request' = [handler |-> "submit_ai_quiz", quiz_id |-> quiz_id,
                         answers |-> answers, username |-> username]
    /\ LET quiz_data == FindQuiz(quizzes, quiz_id, username)
       IN  IF answers = <<>>
           THEN /\ grade_result' = ServerError(HttpError("400", "At least one answer is required"))
                /\ UNCHANGED <<quiz_attempts, quizzes>>
           ELSE IF quiz_data = <<>>
           THEN /\ grade_result' = ServerError(HttpError("404", "Quiz not found. Please generate a new quiz."))
                /\ UNCHANGED <<quiz_attempts, quizzes>>
           ELSE AiGraded(quiz_id, username, answers, quiz_data[1].quiz_json)
    /\ UNCHANGED <<now, quiz_result, quiz_calls, chat_messages, pathVars, roundTripVars,
                   changeVars, serviceVars>>

----------------------------------------------------------------------------
(* calculate_fallback_score, ai_quiz_generator.py lines 457-508 *)

\* one entry of detailed_results, lines 463-478, or the error raised by it
FallbackDetail(question, user_answer) ==
    IF ~HasKey(question, CORRECT_ANSWER) THEN KeyError
    ELSE IF ~IsStr(Get(question, CORRECT_ANSWER, PyNone)) THEN AttributeError
    ELSE IF ~HasKey(question, QUESTION_NUMBER) \/ ~HasKey(question, QUESTION) THEN KeyError
    ELSE [question_number |-> Get(question, QUESTION_NUMBER, PyNone),
          question |-> Get(question, QUESTION, PyNone),
          user_answer |-> user_answer,
          correct_answer |-> Get(question, CORRECT_ANSWER, PyNone),
          is_correct |-> upper(strip(user_answer)) = upper(Get(question, CORRECT_ANSWER, PyNone)[2]),
          explanation |-> Get(question, EXPLANATION, PyStr(<<>>))]

\* the function raised
FallbackRaised(error) == [status |-> "raise", error |-> error]

\* score_data, lines 501-507 (the texts are left out)
ScoreData(detailed_results) ==
    LET correct_count == CountCorrect([i \in 1..Len(detailed_results) |-> detailed_results[i].is_correct])
    IN  [total_questions |-> Len(detailed_results),
         correct_answers |-> correct_count,
         score_percentage |-> AiScore(correct_count, Len(detailed_results)),
         detailed_results |-> detailed_results]

\* what a call ends with
FallbackOutcome(quiz_data, user_answers) ==
    LET questions == Get(quiz_data, QUESTIONS, PyArr(<<>>))[2]
        detailed_results == [i \in 1..Len(questions) |->
                                FallbackDetail(questions[i], AnswerAt(user_answers, i))]
        errors == {i \in 1..Len(questions) : detailed_results[i] \in {KeyError, AttributeError}}
    IN  IF ~HasKey(quiz_data, QUESTIONS) THEN FallbackRaised(KeyError)
        ELSE IF errors # {}
        THEN FallbackRaised(detailed_results[CHOOSE i \in errors : \A j \in errors : i <= j])
        ELSE [status |-> "return", handler |-> "calculate_fallback_score",
              body |-> ScoreData(detailed_results)]

\* calculate_fallback_score(quiz_data, user_answers), called by
\* enhanced_chat_handler with the quiz_data of an active quiz
calculate_fallback_score(quiz_data, user_answers) ==
    /\ grade_calls' = grade_calls + 1
    /\ grade_request' = [handler |-> "calculate_fallback_score", quiz_data |-> quiz_data,
                         answers |-> user_answers]
    /\ grade_result' = FallbackOutcome(quiz_data, user_answers)
    /\ UNCHANGED <<quiz_attempts, chat_messages, quizVars, pathVars, roundTripVars,
                   changeVars, serviceVars>>

----------------------------------------------------------------------------
(* the quizzes graded and the answers submitted *)

\* a question with every field
FullQuestion(question_type, correct_answer) ==
    PyObj(<< <<QUESTION_NUMBER, PyInt(1)>>,
             <<QUESTION, PyStr(<<"q">>)>>,
             <<TYPE, question_type>>,
             <<OPTIONS, PyArr(<<>>)>>,
             <<CORRECT_ANSWER, correct_answer>>,
             <<EXPLANATION, PyStr(<<"e">>)>> >>)

\* the mcq question of the quizzes with several questions
LetterQuestion == FullQuestion(MCQ, PyStr(LETTER_A))

\* the questions of the quizzes with one question: the three types with
\* reference answers of 0, 1, 4 and 5 keywords, an unknown type, a reference
\* answer that is no text, and questions with fields missing
QuestionPool ==
    { LetterQuestion,
      FullQuestion(MCQ, PyStr(<<" ", "b">>)),
      FullQuestion(MCQ, PyStr(<<>>)),
      FullQuestion(MCQ, PyTrue),
      FullQuestion(TRUE_FALSE, PyStr(<<"T", "r", "u", "e">>)),
      FullQuestion(SHORT_ANSWER, PyStr(<<"s", "u", "n">>)),
      FullQuestion(SHORT_ANSWER, PyStr(<<"s", "u", "n", " ", "a", "i", "r", " ", "i", "c", "e", " ", "o", "r", "e">>)),
      FullQuestion(SHORT_ANSWER, PyStr(<<"s", "u", "n", " ", "a", "i", "r", " ", "i", "c", "e", " ", "o", "r", "e", " ", "g", "a", "s">>)),
      FullQuestion(SHORT_ANSWER, PyStr(<<"t", "h", "e">>)),
      FullQuestion(SHORT_ANSWER, PyStr(<<>>)),
      FullQuestion(PyStr(<<"e", "s", "s", "a", "y">>), PyStr(LETTER_A)),
      PyObj(<<>>),
      PyObj(<< <<QUESTION_NUMBER, PyInt(1)>>, <<QUESTION, PyStr(<<"q">>)>>,
               <<CORRECT_ANSWER, PyStr(LETTER_A)>> >>),
      PyObj(<< <<QUESTION_NUMBER, PyInt(1)>>, <<QUESTION, PyStr(<<"q">>)>>,
               <<TYPE, MCQ>> >>),
      PyObj(<< <<TYPE, MCQ>>, <<CORRECT_ANSWER, PyStr(LETTER_A)>> >>) }

\* the answers to the quizzes with one question
AnswerPool ==
    { <<>>, <<" ">>, LETTER_A, <<"a">>, <<"A", ")", " ", "P", "a", "r", "i", "s">>, <<"A", ".">>, LETTER_B,
      <<"T", "r", "u", "e">>, <<"t", "r", "u", "e">>, <<"s", "u", "n">>, <<"S", "u", "n", ",", " ", "a", "i", "r", ".">>, <<"s", "u", "n", " ", "a", "i", "r", " ", "i", "c", "e">>, <<"f", "o", "g">>, <<"t", "h", "e">> }

\* n times the same element
Repeat(x, n) == [i \in 1..n |-> x]

\* the question lists: one question of the pool, or none, or several mcq
\* questions, or an mcq question and one whose reference answer is no text
QuestionLists ==
    { <<q>> : q \in QuestionPool }
      \cup { Repeat(LetterQuestion, n) : n \in {0} \cup 2..MaxQuestions }
      \cup { <<LetterQuestion, FullQuestion(MCQ, PyTrue)>>,
             <<FullQuestion(MCQ, PyTrue), LetterQuestion>> }

\* the answer lists submitted to a quiz of n questions: to one question none,
\* one of the pool, or two; to several questions right answers followed by
\* wrong ones, as many as the questions or fewer
AnswerLists(n) ==
    IF n = 1
    THEN {<<>>, <<LETTER_A, LETTER_B>>} \cup { <<a>> : a \in AnswerPool }
    ELSE { Repeat(LETTER_A, k) \o Repeat(LETTER_B, j) :
             k \in 0..MaxQuestions, j \in 0..MaxQuestions } \cap
         UNION { [1..m -> {LETTER_A, LETTER_B}] : m \in 0..(IF n = 0 THEN 1 ELSE n) }

Submitter == "alice"

\* the message_id of the quiz message of the topic
TopicMessageId == <<"message", 0>>

GradeQuizIds == {QuizId(0), TopicMessageId}

\* quiz_json of a stored quiz
QuizJson(questions) == PyObj(<< <<QUIZ_DATA, PyObj(<< <<QUESTIONS, PyArr(questions)>> >>)>> >>)

\* the quiz message submit_topic_quiz reads, lines 416-423
TopicMessage(questions) ==
    [message_id |-> TopicMessageId, username |-> Submitter, sender |-> "AI",
     quiz_data |-> PyObj(<< <<QUESTIONS, PyArr(questions)>> >>)]

\* nothing has been graded
GradeIdle ==
    /\ chat_messages = <<>>
    /\ quiz_attempts = <<>>
    /\ grade_request = [handler |-> "none"]
    /\ grade_result = [status |-> "none"]
    /\ grade_calls = 0

\* a quiz is stored for the submitter, with the quiz message of the same
\* questions (for the one-question letter quiz also without it)
GradeStored ==
    /\ now = 0
    /\ quiz_result = NoQuizResult
    /\ quiz_calls = 0
    /\ quiz_attempts = <<>>
    /\ grade_request = [handler |-> "none"]
    /\ grade_result = [status |-> "none"]
    /\ grade_calls = 0
    /\ \E questions \in QuestionLists :
          /\ quizzes = <<QuizRecord(QuizId(0), Submitter, QuizJson(questions))>>
          /\ \/ chat_messages = <<TopicMessage(questions)>>
             \/ questions = <<LetterQuestion>> /\ chat_messages = <<>>

\* the questions of the stored quiz
StoredQuizData == Get(quizzes[1].quiz_json, QUIZ_DATA, PyNone)

StoredQuestions == Get(StoredQuizData, QUESTIONS, PyArr(<<>>))[2]

\* one grading call, while calls are left
GradeNext ==
    \/ \E quiz_id \in GradeQuizIds, answers \in AnswerLists(Len(StoredQuestions)) :
          grade_calls < MaxGradeCalls /\ submit_ai_quiz(quiz_id, answers, Submitter)
    \/ \E quiz_id \in GradeQuizIds, answers \in AnswerLists(Len(StoredQuestions)) :
          grade_calls < MaxGradeCalls /\ submit_topic_quiz(quiz_id, answers, Submitter)
    \/ \E answers \in AnswerLists(Len(StoredQuestions)) :
          grade_calls < MaxGradeCalls /\ calculate_fallback_score(StoredQuizData, answers)

\* the same answers handed to the two graders, one after the other: to
\* submit_ai_quiz for the stored quiz, then to submit_topic_quiz for the quiz
\* message of the same questions
CompareNext ==
    \/ \E answers \in AnswerLists(Len(StoredQuestions)) :
          grade_calls = 0 /\ submit_ai_quiz(QuizId(0), answers, Submitter)
    \/ /\ grade_calls = 1
       /\ grade_request.handler = "submit_ai_quiz"
       /\ submit_topic_quiz(TopicMessageId, grade_request.answers, Submitter)

\* the most submissions to one stored quiz
MaxSubmissions == 2

\* a quiz of two questions is stored with its quiz message: two mcq
\* questions, or an mcq question and one whose reference answer is no text
ResubmitStored ==
    /\ GradeStored
    /\ StoredQuestions \in { Repeat(LetterQuestion, 2),
                             <<LetterQuestion, FullQuestion(MCQ, PyTrue)>> }
    /\ chat_messages # <<>>

\* submissions to the stored quiz, one after another, in the same second or
\* in a later one
ResubmitNext ==
    \/ Tick
    \/ \E quiz_id \in GradeQuizIds, answers \in AnswerLists(Len(StoredQuestions)) :
          grade_calls < MaxSubmissions /\ submit_ai_quiz(quiz_id, answers, Submitter)
    \/ \E quiz_id \in GradeQuizIds, answers \in AnswerLists(Len(StoredQuestions)) :
          grade_calls < MaxSubmissions /\ submit_topic_quiz(quiz_id, answers, Submitter)

----------------------------------------------------------------------------
(* ChatService: services/chat_service.py *)

\* the most messages the collection holds
MaxMessages == 3

\* MessageType.CONTENT.value, .QUIZ.value and .LEARNING_PATH.value, as the
\* stored documents show them (test_chat_clear.py lines 68-70)
MessageTypes == {"content", "quiz", "learning_path"}

\* who writes, and in which session
ChatSessions == { <<"alice", "s1">>, <<"alice", "s2">>, <<"bob", "s1">> }

\* the session_id argument: "" stands for the default None (and for '',
\* which "if session_id" treats alike)
SessionArgs == {"", "s1"}

\* message_doc, lines 59-67 (metadata and timestamp are left out; the
\* documents are kept in the order of their timestamps)
MessageDoc(username, session_id, role, content, message_type) ==
    [username |-> username, session_id |-> session_id, role |-> role,
     content |-> content, message_type |-> message_type]

\* APIResponse(success=True, message, data)
APIResponse(message, data) == [success |-> TRUE, message |-> message, data |-> data]

\* a document matches {"field": value}: it has the field, with that value
FieldIs(m, field, value) == field \in DOMAIN m /\ m[field] = value

\* a document matches {"field": {"$in": values}}
FieldIn(m, field, values) == field \in DOMAIN m /\ m[field] \in values

\* the filter that selects the messages of every type
ClearedTypes_all == MessageTypes

\* the message types of the query of clear_chat_history, line 131
ClearedTypes == {"content", "CONTENT"}

\* query of clear_chat_history, lines 129-134
ClearQuery(m, username, session_id) ==
    /\ FieldIs(m, "username", username)
    /\ FieldIn(m, "message_type", ClearedTypes)
    /\ session_id # "" => FieldIs(m, "session_id", session_id)

\* query of clear_all_messages, lines 155-157, and of get_chat_history, lines
\* 92-94
UserQuery(m, username, session_id) ==
    /\ FieldIs(m, "username", username)
    /\ session_id # "" => FieldIs(m, "session_id", session_id)

\* limit: int = 50, line 89
HistoryLimit == 50

\* get_chat_history, lines 88-105: the latest limit messages of the user,
\* oldest first
get_chat_history(coll, username, session_id, limit) ==
    LET found == SelectSeq(coll, LAMBDA m : UserQuery(m, username, session_id))
    IN  IF Len(found) <= limit THEN found
        ELSE SubSeq(found, Len(found) - limit + 1, Len(found))

\* no call of the service yet
ChatIdle ==
    /\ chat_request = [op |-> "none"]
    /\ chat_result = [success |-> FALSE]

\* store_message, lines 54-77 (the activity log of the session is left out)
store_message(username, session_id, role, content, message_type) ==
    /\ Len(chat_messages) < MaxMessages
    /\ chat_messages' = Append(chat_messages,
                               MessageDoc(username, session_id, role, content, message_type))
    /\ chat_request' = [op |-> "store_message", username |-> username,
                        session_id |-> session_id, message_type |-> message_type]
    /\ chat_result' = APIResponse("Message stored successfully",
                                  [message_id |-> Len(chat_messages) + 1])
    /\ UNCHANGED <<quiz_attempts, grade_request, grade_result, grade_calls, pathVars, quizVars,
                   roundTripVars, changeVars, progressVars, createVars>>

\* clear_chat_history, lines 125-150: delete_many(query)
clear_chat_history(username, session_id) ==
    LET kept == SelectSeq(chat_messages, LAMBDA m : ~ClearQuery(m, username, session_id))
    IN  /\ chat_messages' = kept
        /\ chat_request' = [op |-> "clear_chat_history", username |-> username,
                            session_id |-> session_id]
        /\ chat_result' = APIResponse("Cleared chat messages (learning paths and quizzes preserved)",
                                      [deleted_count |-> Len(chat_messages) - Len(kept)])
        /\ UNCHANGED <<quiz_attempts, grade_request, grade_result, grade_calls, pathVars,
                       quizVars, roundTripVars, changeVars, progressVars, createVars>>

\* clear_all_messages, lines 152-173
clear_all_messages(username, session_id) ==
    LET kept == SelectSeq(chat_messages, LAMBDA m : ~UserQuery(m, username, session_id))
    IN  /\ chat_messages' = kept
        /\ chat_request' = [op |-> "clear_all_messages", username |-> username,
                            session_id |-> session_id]
        /\ chat_result' = APIResponse("Cleared all messages",
                                      [deleted_count |-> Len(chat_messages) - Len(kept)])
        /\ UNCHANGED <<quiz_attempts, grade_request, grade_result, grade_calls, pathVars,
                       quizVars, roundTripVars, changeVars, progressVars, createVars>>

ChatNext ==
    \/ \E who \in ChatSessions, message_type \in MessageTypes :
          store_message(who[1], who[2], "user", "text", message_type)
    \/ \E username \in Usernames, session_id \in SessionArgs :
          clear_chat_history(username, session_id)
    \/ \E username \in Usernames, session_id \in SessionArgs :
          clear_all_messages(username, session_id)

----------------------------------------------------------------------------
(* mark_topic_complete: api/learning_path_api.py lines 30-142 *)

\* the most mark_topic_complete calls of one behaviour
MaxProgressCalls == 2

\* the most topics of the stored learning path
MaxTopics == 2

\* "if learning_path else 5", lines 64 and 89
FALLBACK_TOPICS == 5

\* "quizScore >= 80", line 113
PASS_SCORE == 80

\* the stored learning path: its goal_id, its name, its owner
GOAL_ID == "goal_0"
PATH_NAME == "Python"
PATH_OWNER == "alice"

\* the learning_path_id of a call: the goal_id, the name, or neither
LearningPathIds == {GOAL_ID, PATH_NAME, "none"}

\* topic_index: int, any integer
TopicIndexes == {-2, 0, 1}

\* completion_data.quizScore
QuizScores == {50, 80}

\* completion_data.completedAt
COMPLETED_AT == "2024-01-01"

ZeroDivisionError == [raised |-> "ZeroDivisionError"]
IndexError == [raised |-> "IndexError"]

\* learning_goal_doc of create_learning_path, learning_paths.py lines 235-250
\* (description, difficulty, duration, prerequisites, tags and the dates are
\* left out)
LearningGoalDoc(goal_id, username, name, topics) ==
    [goal_id |-> goal_id, username |-> username, name |-> name, progress |-> ZERO,
     status |-> "active", topics |-> topics, source |-> "user_created"]

\* a topic of a learning path as it is created
NewTopic(k) == [name |-> k]

\* the position of the first document of the collection that matches, 0 when
\* there is none: find_one
FirstMatch(hits) == IF hits = {} THEN 0 ELSE CHOOSE k \in hits : \A j \in hits : k <= j

\* find_one(progress_filter), lines 41-47
FindProgress(coll, username, learning_path_id) ==
    FirstMatch({k \in 1..Len(coll) : /\ coll[k].username = username
                                     /\ coll[k].learning_path_id = learning_path_id})

\* find_one({"$or": [{goal_id, username}, {name, username}]}), lines 57-62 and
\* 82-87
FindLearningPath(coll, learning_path_id, username) ==
    FirstMatch({k \in 1..Len(coll) :
                   /\ coll[k].username = username
                   /\ coll[k].goal_id = learning_path_id \/ coll[k].name = learning_path_id})

\* total_topics, lines 64 and 89; g is the position of the learning path
TotalTopics(coll, g) == IF g # 0 THEN Len(coll[g].topics) ELSE FALLBACK_TOPICS

\* completed_topics after "if topic_index not in completed_topics: append",
\* lines 51-53
WithTopic(completed_topics, topic_index) ==
    IF \E k \in 1..Len(completed_topics) : completed_topics[k] = topic_index
    THEN completed_topics
    ELSE Append(completed_topics, topic_index)

\* max(a, b)
Max(a, b) == IF a >= b THEN a ELSE b

\* the record after the $set of lines 67-79
UpdatedProgress(existing_progress, topic_index, quizScore, total_topics) ==
    LET completed_topics == WithTopic(existing_progress.completed_topics, topic_index)
    IN  [existing_progress EXCEPT
            !.completed_topics = completed_topics,
            !.current_topic_index = Max(topic_index + 1, existing_progress.current_topic_index),
            !.overall_progress = Percentage(Len(completed_topics), total_topics),
            !.topic_quiz_score = (topic_index :> quizScore) @@ existing_progress.topic_quiz_score]

\* new_progress, lines 92-103
NewProgress(username, learning_path_id, topic_index, quizScore, total_topics) ==
    [username |-> username,
     learning_path_id |-> learning_path_id,
     completed_topics |-> <<topic_index>>,
     current_topic_index |-> topic_index + 1,
     overall_progress |-> Percentage(1, total_topics),
     topic_quiz_score |-> (topic_index :> quizScore)]

\* the record mark_lesson_complete creates, lines 640-651 (the lessons are
\* left out)
LessonProgress(username, learning_path_id, topic_index) ==
    [username |-> username,
     learning_path_id |-> learning_path_id,
     completed_topics |-> <<>>,
     current_topic_index |-> topic_index,
     overall_progress |-> ZERO,
     topic_quiz_score |-> <<>>]

\* the position topics[topic_index] reads once "topic_index < len(topics)" has
\* held, 0 for the IndexError of a negative index before the first element
ListPosition(topics, topic_index) ==
    IF topic_index >= 0 THEN topic_index + 1
    ELSE IF topic_index >= -Len(topics) THEN Len(topics) + topic_index + 1
    ELSE 0

\* the topic after lines 110-113
CompletedTopic(topic, quizScore) ==
    [completed |-> TRUE, completion_date |-> COMPLETED_AT, quiz_score |-> quizScore,
     quiz_passed |-> (quizScore >= PASS_SCORE)] @@ topic

\* the learning path after the $set of lines 115-124
UpdatedPath(learning_path, position, quizScore, overall_progress) ==
    [learning_path EXCEPT
        !.topics = [learning_path.topics EXCEPT ![position] = CompletedTopic(@, quizScore)],
        !.progress = overall_progress]

\* the dict returned, lines 128-136
ProgressResponse(topic_index, quizScore, overall_progress, completedTopics, total_topics) ==
    [success |-> TRUE, topicIndex |-> topic_index, quizScore |-> quizScore,
     overallProgress |-> overall_progress, completedTopics |-> completedTopics,
     totalTopics |-> total_topics]

\* lines 47-104: the progress record written, p the position of the existing
\* one (0 for none)
ProgressWritten(coll, p, username, learning_path_id, topic_index, quizScore, total_topics) ==
    IF p # 0
    THEN [coll EXCEPT ![p] = UpdatedProgress(coll[p], topic_index, quizScore, total_topics)]
    ELSE Append(coll, NewProgress(username, learning_path_id, topic_index, quizScore,
                                  total_topics))

\* lines 106-136 after the progress record is written, written being the
\* position of that record: the learning path is updated when the index is
\* below the number of its topics; the response is built from
\* existing_progress, which is None when the record was just created
PathAndResponse(p, g, written, topic_index, quizScore, total_topics) ==
    LET overall_progress == user_topic_progress'[written].overall_progress
        touches == g # 0 /\ topic_index < Len(learning_goals[g].topics)
        position == IF touches THEN ListPosition(learning_goals[g].topics, topic_index) ELSE 0
    IN  IF touches /\ position = 0
        THEN /\ progress_result' = ServerError(IndexError)
             /\ UNCHANGED learning_goals
        ELSE /\ learning_goals' =
                   IF touches
                   THEN [learning_goals EXCEPT
                            ![g] = UpdatedPath(@, position, quizScore, overall_progress)]
                   ELSE learning_goals
             /\ progress_result' =
                   IF p = 0 THEN ServerError(AttributeError)
                   ELSE HttpOk("mark_topic_complete",
                               ProgressResponse(topic_index, quizScore, overall_progress,
                                                Len(user_topic_progress'[p].completed_topics),
                                                total_topics))

\* POST /topic/complete/{learning_path_id}/{topic_index}: the whole handler,
\* lines 30-142; every exception leaves as HTTP 500, lines 140-142
mark_topic_complete(learning_path_id, topic_index, username, quizScore) ==
    /\ progress_calls' = progress_calls + 1
    /\ progress_request' = [op |-> "mark_topic_complete", learning_path_id |-> learning_path_id,
                            topic_index |-> topic_index, username |-> username,
                            quizScore |-> quizScore]
    /\ LET p == FindProgress(user_topic_progress, username, learning_path_id)
           g == FindLearningPath(learning_goals, learning_path_id, username)
           total_topics == TotalTopics(learning_goals, g)
       IN  IF total_topics = 0
           THEN /\ progress_result' = ServerError(ZeroDivisionError)
                /\ UNCHANGED <<user_topic_progress, learning_goals>>
           ELSE /\ user_topic_progress' =
                      ProgressWritten(user_topic_progress, p, username, learning_path_id,
                                      topic_index, quizScore, total_topics)
                /\ PathAndResponse(p, g, IF p # 0 THEN p ELSE Len(user_topic_progress) + 1,
                                   topic_index, quizScore, total_topics)
    /\ UNCHANGED <<pathVars, quizVars, roundTripVars, changeVars, gradeVars, chatVars,
                   createVars>>

\* a learning path of alice is stored, with up to MaxTopics topics; there is
\* no progress record for it yet, or the one mark_lesson_complete created
ProgressStored ==
    /\ \E n \in 0..MaxTopics :
          learning_goals = <<LearningGoalDoc(GOAL_ID, PATH_OWNER, PATH_NAME,
                                             [k \in 1..n |-> NewTopic(k)])>>
    /\ user_topic_progress \in { <<>>, <<LessonProgress(PATH_OWNER, GOAL_ID, 0)>> }
    /\ progress_request = [op |-> "none"]
    /\ progress_result = [status |-> "none"]
    /\ progress_calls = 0

ProgressNext ==
    \E learning_path_id \in LearningPathIds, topic_index \in TopicIndexes,
       username \in Usernames, quizScore \in QuizScores :
          /\ progress_calls < MaxProgressCalls
          /\ mark_topic_complete(learning_path_id, topic_index, username, quizScore)

\* no mark_topic_complete call yet, and empty collections
ProgressIdle ==
    /\ user_topic_progress = <<>>
    /\ learning_goals = <<>>
    /\ progress_request = [op |-> "none"]
    /\ progress_result = [status |-> "none"]
    /\ progress_calls = 0

----------------------------------------------------------------------------
(* create_learning_path, learning_paths.py lines 193-281 *)

\* how many create requests the model receives
MaxCreates == 3

\* how many generated paths the model lets the lessons collection hold
MaxPreliminary == 1

\* path_data.name of a request
PathNames == {PATH_NAME, "Go"}

\* the lesson process_learning_path_query stores for a generated path, lines
\* 92-114: the fields create_learning_path looks at
PreliminaryPath(username, name) ==
    [lesson_id |-> LESSON_ID, title |-> name, created_by |-> username,
     status |-> "pending_avatar"]

\* goal_id = f"goal_{utcnow().timestamp()}", line 233: the clock has
\* microseconds and one handler runs after the other, so that the k-th request
\* gets an id of its own
CreatedGoalId(k) == <<"goal", k>>

\* learning_goals_collection.find_one({"username": ..., "name": ...}), lines
\* 199-202: the position of the first such document, 0 for None
ExistingGoal(coll, username, name) ==
    FirstMatch({k \in 1..Len(coll) : coll[k].username = username /\ coll[k].name = name})

\* HTTPException(status_code=409, ...), lines 206-209
AlreadyExists == [raised |-> "HTTPException", status_code |-> "409"]

\* lessons_collection.find({"created_by": username, "title": name}) and the
\* delete_one of every document found, lines 218-227
CleanedUp(coll, username, name) ==
    SelectSeq(coll, LAMBDA d : ~(d.created_by = username /\ d.title = name))

\* the value returned, lines 272-276
Created(goal_id) ==
    [status |-> "200", message |-> "Learning path created successfully",
     goal_id |-> goal_id]

\* the requests whose coroutine has started and has not ended
Started == {k \in 1..Len(create_pc) : create_pc[k].at = "checked"}

\* mutant: a coroutine starts while another has not ended
LoopFree_workers == TRUE

\* create_learning_path is an async def without an await (lines 194-281), run
\* by the event loop of the one server process (main.py line 369): the loop
\* starts a coroutine only when no other is running
LoopFree == Started = {}

\* a generated path is stored in the lessons collection, lines 112-114
store_preliminary(username, name) ==
    /\ Len(lessons) < MaxPreliminary
    /\ LoopFree
    /\ lessons' = insert_one(lessons, PreliminaryPath(username, name))
    /\ UNCHANGED <<pc, variant, user_prompt, max_retries, retry_count, prompts,
                   outstanding, response_content, classified, result, chat_history,
                   stores, runs>>
    /\ UNCHANGED <<quizVars, roundTripVars, changeVars, gradeVars, chatVars,
                   progressVars, createVars>>

\* POST /create is received: the request waits for the event loop
receive_create(username, name) ==
    /\ Len(create_pc) < MaxCreates
    /\ create_pc' = Append(create_pc, [username |-> username, name |-> name,
                                       at |-> "received"])
    /\ create_result' = Append(create_result, [status |-> "none"])
    /\ UNCHANGED <<pathVars, quizVars, roundTripVars, changeVars, gradeVars, chatVars,
                   progressVars>>

\* create_learning_path, lines 197-211: the duplicate check. The
\* HTTPException of line 206 is caught by except Exception of line 277 and
\* raised again with status 500
check_duplicate(k) ==
    /\ create_pc[k].at = "received"
    /\ LoopFree
    /\ LET existing_goal ==
               ExistingGoal(learning_goals, create_pc[k].username, create_pc[k].name)
       IN  IF existing_goal # 0
           THEN /\ create_pc' = [create_pc EXCEPT ![k].at = "done"]
                /\ create_result' = [create_result EXCEPT ![k] = ServerError(AlreadyExists)]
           ELSE /\ create_pc' = [create_pc EXCEPT ![k].at = "checked"]
                /\ UNCHANGED create_result
    /\ UNCHANGED <<pathVars, quizVars, roundTripVars, changeVars, gradeVars, chatVars,
                   progressVars>>

\* create_learning_path, lines 213-276: the generated paths of that name are
\* removed from lessons, and the learning path is inserted
save_goal(k) ==
    /\ create_pc[k].at = "checked"
    /\ lessons' = CleanedUp(lessons, create_pc[k].username, create_pc[k].name)
    /\ learning_goals' =
           insert_one(learning_goals,
                      LearningGoalDoc(CreatedGoalId(k), create_pc[k].username,
                                      create_pc[k].name, <<>>))
    /\ create_pc' = [create_pc EXCEPT ![k].at = "done"]
    /\ create_result' = [create_result EXCEPT ![k] = Created(CreatedGoalId(k))]
    /\ UNCHANGED <<pc, variant, user_prompt, max_retries, retry_count, prompts,
                   outstanding, response_content, classified, result, chat_history,
                   stores, runs>>
    /\ UNCHANGED <<quizVars, roundTripVars, changeVars, gradeVars, chatVars,
                   user_topic_progress, progress_request, progress_result,
                   progress_calls>>

CreateNext ==
    \/ \E username \in Usernames, name \in PathNames : store_preliminary(username, name)
    \/ \E username \in Usernames, name \in PathNames : receive_create(username, name)
    \/ \E k \in 1..Len(create_pc) : check_duplicate(k)
    \/ \E k \in 1..Len(create_pc) : save_goal(k)

\* no create_learning_path request yet
CreateIdle ==
    /\ create_pc = <<>>
    /\ create_result = <<>>

\* none of the services has been called
ServiceIdle == ChatIdle /\ ProgressIdle /\ CreateIdle

----------------------------------------------------------------------------
(* Specifications *)

Init == PathInit /\ QuizInit /\ RoundTripIdle /\ ChangeIdle /\ GradeIdle /\ ServiceIdle

\* process_learning_path_query
Spec == Init /\ [][Next]_vars

\* generate_ai_quiz
QuizSpec == Init /\ [][QuizNext]_vars

\* a document is drawn; nothing else has happened
ExtractInit ==
    PathInit /\ QuizInit /\ RoundTripInit /\ ChangeIdle /\ GradeIdle /\ ServiceIdle

\* the round trip
ExtractSpec == ExtractInit /\ [][ExtractNext]_vars

\* extract_json of a text as it is and changed
ScanInit ==
    PathInit /\ QuizInit /\ ScanDocument /\ ChangeIdle /\ GradeIdle /\ ServiceIdle

ScanSpec == ScanInit /\ [][ScanNext]_vars

\* a quiz is stored; nothing else has happened
GradeInit == PathInit /\ GradeStored /\ RoundTripIdle /\ ChangeIdle /\ ServiceIdle

\* the graders
GradeSpec == GradeInit /\ [][GradeNext]_vars

\* resubmission to a stored quiz
ResubmitInit ==
    PathInit /\ ResubmitStored /\ RoundTripIdle /\ ChangeIdle /\ ServiceIdle

\* the two graders on the same answers
CompareSpec == GradeInit /\ [][CompareNext]_vars

\* mark_topic_complete on a stored learning path
ProgressInit ==
    PathInit /\ QuizInit /\ RoundTripIdle /\ ChangeIdle /\ GradeIdle /\ ChatIdle
        /\ ProgressStored /\ CreateIdle

ProgressSpec == ProgressInit /\ [][ProgressNext]_vars

\* the chat service
ChatSpec == Init /\ [][ChatNext]_vars

\* create_learning_path
CreateSpec == Init /\ [][CreateNext]_vars

ResubmitSpec == ResubmitInit /\ [][ResubmitNext]_vars

----------------------------------------------------------------------------
(* Properties of process_learning_path_query *)

FailureKinds == {"empty", "unparsable", "not_object", "bad_topics"}

Finished == pc = "done"

\* the steps a run may still take: three for each attempt that is left
StepsLeft ==
    IF pc \in {"idle", "done"} THEN 0
    ELSE 3 * (max_retries - retry_count)
            - (CASE pc = "attempt" -> 0 [] pc = "generating" -> 1 [] pc = "respond" -> 2)

\* C1: one top-level call with max_retries = N >= 1 makes at most N calls of
\* the generator; a run whose last attempt failed ends by returning the
\* failure result, after exactly N calls; and a run cannot go on for ever,
\* since each of its steps lowers the number of steps it may still take
C1_RetryTermination ==
    /\ [](/\ max_retries >= 1
          /\ Len(prompts) <= max_retries
          /\ (Finished /\ classified \in FailureKinds)
                 => (result.response = "ERROR" /\ Len(prompts) = max_retries))
    /\ [][pc \notin {"idle", "done"} => (StepsLeft' >= 0 /\ StepsLeft' < StepsLeft)]_vars

\* C1 witness: three attempts of a run with max_retries = 3 failed
C1_Witness ==
    /\ Finished /\ max_retries = 3 /\ Len(prompts) = 3
    /\ classified \in FailureKinds /\ result.response = "ERROR"

\* C2: an attempt whose output yields an object that passes validation ends
\* the run in success with that document: no retry, no failure result, no
\* exception
C2_ValidEndsInSuccess ==
    classified = "valid"
        => /\ Finished
           /\ result.response = "JSON"
           /\ result.content = Recover(response_content).v

\* C3: an empty output on the final attempt goes straight to the failure
\* result with no further call; on an earlier attempt it leads to one more
\* attempt with retry_count + 1
C3_EmptyShortCircuit ==
    [][(pc = "respond" /\ IsEmptyResponse(response_content))
          => IF retry_count = max_retries - 1
             THEN /\ pc' = "done"
                  /\ result'.response = "ERROR"
                  /\ prompts' = prompts /\ retry_count' = retry_count
             ELSE /\ pc' = "attempt"
                  /\ retry_count' = retry_count + 1
                  /\ Len(prompts') = retry_count'
                  /\ result' = NoResult]_vars

\* C3 witness: the final attempt of a run of three came back empty
C3_Witness ==
    /\ Finished /\ classified = "empty" /\ max_retries = 3
    /\ retry_count = max_retries - 1 /\ result.response = "ERROR"

\* C4: the prompt of attempt 0 is the user prompt with the task instructions,
\* the prompt of every later attempt is the same user prompt with the
\* corrective instructions
C4_Prompts ==
    \A k \in 1..Len(prompts) :
        prompts[k] = IF k = 1
                     THEN user_prompt \o <<" ">> \o LEARNING_PATH_PROMPT
                     ELSE user_prompt \o <<" ">> \o REGENRATE_OR_FILTER_JSON \o ONLY_VALID_JSON

\* C4 witness: a third prompt was sent after two failed attempts
C4_Witness == Len(prompts) = 3 /\ pc = "generating"

\* C5: the attempts of a run are sequential: a call is issued only when none
\* is out and the attempt before it has been handled, so two calls are never
\* out together
C5_Sequential ==
    /\ [](outstanding <= 1)
    /\ []((pc = "attempt" /\ retry_count > 0) => (classified # "none" /\ result = NoResult))
    /\ [][prompts' # prompts /\ prompts' # <<>>
             => (outstanding = 0 /\ outstanding' = 1 /\ Len(prompts) = retry_count)]_vars

\* C5 witness: the second call of a run is out, the first has been handled
C5_Witness ==
    pc = "generating" /\ retry_count = 1 /\ outstanding = 1 /\ classified \in FailureKinds

C7_AttemptCount ==
    (Finished /\ result.response = "JSON")
        => /\ "attempts" \in DOMAIN result
           /\ result.attempts = retry_count + 1

\* C7 amended: the success result is the validated document and the id of
\* the lesson made from it, and nothing about the attempts
C7_DocumentAndLesson ==
    (Finished /\ result.response = "JSON")
        => /\ DOMAIN result = {"response", "type", "content", "lesson_id"}
           /\ result.content = Recover(response_content).v
           /\ lessons # <<>>
           /\ lessons[Len(lessons)].learning_path = result.content
           /\ lessons[Len(lessons)].lesson_id = result.lesson_id

\* C7 witness: success on the second attempt
C7_Witness == Finished /\ result.response = "JSON" /\ retry_count = 1

\* the shape of the claim, in its own words: an object whose 'topics' is a list
IsObjectWithTopicsList(v) ==
    /\ Tag(v) = "obj"
    /\ \E k \in 1..Len(v[2]) : v[2][k][1] = TOPICS /\ Tag(v[2][k][2]) = "arr"

\* C8: an attempt is classified valid exactly when the recovered value is an
\* object whose 'topics' is a list; anything else recovered is a schema
\* failure, and no lesson is ever stored from it
C8_SchemaValidation ==
    /\ []((pc \in {"attempt", "generating", "done"} /\ classified \notin {"none", "empty"})
            => /\ (classified = "valid")
                    <=> (Recover(response_content).ok
                         /\ IsObjectWithTopicsList(Recover(response_content).v))
               /\ (classified \in {"not_object", "bad_topics"})
                    <=> (Recover(response_content).ok
                         /\ ~IsObjectWithTopicsList(Recover(response_content).v)))
    /\ [](\A k \in 1..Len(lessons) : IsObjectWithTopicsList(lessons[k].learning_path))
    /\ [][lessons' # lessons => classified' = "valid"]_vars

\* C8 witness: an object with a 'topics' that is no list was turned down
C8_Witness ==
    /\ classified = "bad_topics"
    /\ Recover(response_content).ok
    /\ HasKey(Recover(response_content).v, TOPICS)

----------------------------------------------------------------------------
(* Properties of generate_ai_quiz *)

\* the 'questions' of a quiz document, None when it has none
QuestionsOf(quiz_json) ==
    IF IsDict(quiz_json) /\ IsDict(Get(quiz_json, QUIZ_DATA, PyNone))
    THEN Get(Get(quiz_json, QUIZ_DATA, PyNone), QUESTIONS, PyNone)
    ELSE PyNone

\* C9: a quiz is stored, and returned, only if its 'questions' is a list
C9_OnlyListQuestionsStored ==
    /\ \A k \in 1..Len(quizzes) : IsList(QuestionsOf(quizzes[k].quiz_json))
    /\ quiz_result.status = "200" => IsList(QuestionsOf(quiz_result.body))

----------------------------------------------------------------------------
(* Properties of the round trip *)

\* C10: extract_json of the serialization of a document, with nothing around
\* it, is that document
C10_RoundTrip == stage = "extracted" => extracted = document

\* C11: the text of a JSON value inside triple-backtick fences, with the json
\* tag or with none, is extracted to the same value as the text alone
C11_FenceTolerance ==
    (stage = "compared" /\ change = "fenced") => other_result = extracted

\* C12: the text of a JSON object followed by text that is no JSON is
\* extracted to the same value as the text of the object alone
C12_NoiseTolerance ==
    (stage = "compared" /\ change = "noise" /\ IsDict(document))
        => other_result = extracted

\* an object with a field whose value is an object
HasNestedObject(v) ==
    IsDict(v) /\ \E i \in 1..Len(v[2]) : IsDict(v[2][i][2])

\* the first span the brace scan cuts out of a text
FirstSpan(s) ==
    LET spans == BraceMatches(s, FindFrom(s, 1, <<"{">>))
    IN  IF spans = <<>> THEN <<>> ELSE spans[1]

\* C13: of the text of an object with nested objects as field values, the
\* brace scan's span runs from the opening brace to its matching closing
\* brace, and the whole object is returned
C13_BalancedSpan ==
    (stage = "extracted" /\ HasNestedObject(document))
        => (FirstSpan(serialized) = serialized /\ extracted = document)

\* C14: a '{' that starts no JSON object, whether its braces balance or
\* not, does not keep extract_json from returning the object after it
C14_LaterCandidateFound ==
    (stage = "compared" /\ change = "prefix" /\ IsDict(document) /\ extracted = document)
        => other_result = document

\* the latest call was graded by the handler
GradedBy(handler) == grade_result.status = "200" /\ grade_result.handler = handler

\* the per-question entries of the latest result of the two HTTP graders
Entries ==
    IF GradedBy("submit_ai_quiz")
    THEN [i \in 1..Len(grade_result.body.answerReview) |->
            [user_answer |-> grade_result.body.answerReview[i].userAnswer,
             is_correct |-> grade_result.body.answerReview[i].isCorrect]]
    ELSE IF GradedBy("submit_topic_quiz")
    THEN [i \in 1..Len(grade_result.body.details) |->
            [user_answer |-> grade_result.body.details[i].user_answer,
             is_correct |-> grade_result.body.details[i].is_correct]]
    ELSE <<>>

\* the type and the reference answer of the stored question an entry is about
EntryType(i) == Get(StoredQuestions[i], TYPE, MCQ)

EntryReference(i) == Get(StoredQuestions[i], CORRECT_ANSWER, PyStr(<<>>))

\* a text of whitespace only, the empty text included
OnlyWhitespace(text) == \A k \in 1..Len(text) : text[k] \in WS

\* the call asks a handler for the quiz that handler can find with questions
AiCallFound ==
    /\ grade_request.handler = "submit_ai_quiz"
    /\ grade_request.quiz_id = QuizId(0)

TopicCallFound ==
    /\ grade_request.handler = "submit_topic_quiz"
    /\ grade_request.quiz_id = TopicMessageId
    /\ chat_messages # <<>>

\* C15: in the results of submit_ai_quiz and submit_topic_quiz an answer that
\* is empty or only whitespace is marked incorrect, whatever the question's
\* type and reference answer; the test comes before the matching, so a call
\* with no other answers is never stopped by the matching
C15_EmptyAnswerRule ==
    /\ \A i \in 1..Len(Entries) :
          OnlyWhitespace(Entries[i].user_answer) => ~Entries[i].is_correct
    /\ ( /\ AiCallFound \/ TopicCallFound
         /\ Len(grade_request.answers) = Len(StoredQuestions)
         /\ grade_request.answers # <<>>
         /\ \A i \in 1..Len(grade_request.answers) : OnlyWhitespace(grade_request.answers[i]) )
          => (grade_result.status = "200" /\ Len(Entries) = Len(StoredQuestions))

\* a whitespace answer to a short_answer question whose reference answer is
\* empty, where the matching alone would say correct, has been graded
C15_Witness ==
    /\ GradedBy("submit_topic_quiz")
    /\ Len(Entries) = 1
    /\ Entries[1].user_answer = <<" ">>
    /\ EntryType(1) = SHORT_ANSWER
    /\ EntryReference(1) = PyStr(<<>>)
    /\ ~Entries[1].is_correct

\* C16: for mcq and true_false questions a non-empty answer is marked correct
\* exactly when its first character, trimmed and upper-cased, is that of the
\* reference answer
C16_FirstLetterRule ==
    \A i \in 1..Len(Entries) :
        ( /\ EntryType(i) \in {MCQ, TRUE_FALSE}
          /\ IsStr(EntryReference(i))
          /\ ~OnlyWhitespace(Entries[i].user_answer) )
            => (Entries[i].is_correct
                  <=> FirstLetter(upper(strip(Entries[i].user_answer)))
                        = FirstLetter(upper(strip(EntryReference(i)[2]))))

\* the keywords of the reference answer of question i, and those of them the
\* answer has
ReferenceKeywords(i) == Keywords(EntryReference(i)[2])

MatchedKeywords(i) == Keywords(Entries[i].user_answer) \cap ReferenceKeywords(i)

\* the larger of two numbers
Larger(a, b) == IF a >= b THEN a ELSE b

\* C17: submit_topic_quiz marks a non-empty answer to a short_answer question
\* whose reference answer has n >= 1 keywords correct exactly when the number
\* m of those keywords in the answer satisfies 2 * m >= max(2, n)
C17_KeywordThreshold ==
    GradedBy("submit_topic_quiz") =>
        \A i \in 1..Len(Entries) :
            ( /\ EntryType(i) = SHORT_ANSWER
              /\ IsStr(EntryReference(i))
              /\ ReferenceKeywords(i) # {}
              /\ ~OnlyWhitespace(Entries[i].user_answer) )
                => (Entries[i].is_correct
                      <=> 2 * Cardinality(MatchedKeywords(i))
                            >= Larger(2, Cardinality(ReferenceKeywords(i))))

\* an answer with two of the four keywords has been marked correct
C17_Witness ==
    /\ GradedBy("submit_topic_quiz")
    /\ Len(Entries) = 1
    /\ EntryType(1) = SHORT_ANSWER
    /\ Cardinality(ReferenceKeywords(1)) = 4
    /\ Cardinality(MatchedKeywords(1)) = 2
    /\ Entries[1].is_correct

\* C18: the results of submit_ai_quiz and submit_topic_quiz carry the number
\* of entries marked correct and 100 * correct / total rounded to one
\* decimal, 0 for a quiz without questions
C18_RoundedPercentage ==
    (GradedBy("submit_ai_quiz") \/ GradedBy("submit_topic_quiz")) =>
        /\ grade_result.body.total_questions = Len(Entries)
        /\ grade_result.body.correct_answers
              = Cardinality({i \in 1..Len(Entries) : Entries[i].is_correct})
        /\ grade_result.body.score_percentage
              = IF Len(Entries) = 0 THEN ZERO
                ELSE round1(Ratio(100 * grade_result.body.correct_answers, Len(Entries)))

\* the call has fewer answers than the quiz has questions
FewerAnswers == Len(grade_request.answers) < Len(StoredQuestions)

\* the entries cover every question, and those of the questions without an
\* answer show the empty text marked incorrect
MissingGradedEmpty ==
    /\ Len(Entries) = Len(StoredQuestions)
    /\ \A i \in (Len(grade_request.answers) + 1)..Len(Entries) :
          Entries[i].user_answer = <<>> /\ ~Entries[i].is_correct

GivenAnswerFails ==
    \E i \in 1..Len(grade_request.answers) :
        /\ i <= Len(StoredQuestions)
        /\ ~IsStr(EntryReference(i))
        /\ EntryType(i) \in MatchedTypes
        /\ ~OnlyWhitespace(grade_request.answers[i])

MissingField(question) ==
    \E name \in {TYPE, CORRECT_ANSWER, EXPLANATION, QUESTION_NUMBER, OPTIONS} :
        ~HasKey(question, name)

\* C20: a call that grades a question with a missing field, every field it
\* has being of the right type, ends with per-question results and a score
C20_MissingFieldsTolerated ==
    ( /\ \/ AiCallFound /\ grade_request.answers # <<>>
         \/ TopicCallFound /\ Len(grade_request.answers) = Len(StoredQuestions)
         \/ grade_request.handler = "calculate_fallback_score"
      /\ \E i \in 1..Len(StoredQuestions) : MissingField(StoredQuestions[i])
      /\ \A i \in 1..Len(StoredQuestions) : IsStr(EntryReference(i)) )
        => /\ grade_result.status \in {"200", "return"}
           /\ grade_result.body.total_questions = Len(StoredQuestions)

----------------------------------------------------------------------------
(* Properties of the stored quizzes and attempts *)

\* the record is in the collection as it is
StillStored(coll, rec) == \E j \in 1..Len(coll) : coll[j] = rec

\* C21: a later generate_ai_quiz never changes a stored quiz: every quiz
\* document stored before a call, two calls in one clock second included, is
\* in the collection after it with its quiz_json, and a call that returns the
\* quiz has added a document of its own
C21_GenerationNeverMutates ==
    [][/\ \A k \in 1..Len(quizzes) : StillStored(quizzes', quizzes[k])
       /\ (quiz_calls' # quiz_calls /\ quiz_result'.status = "200")
              => Len(quizzes') = Len(quizzes) + 1]_vars

\* the latest step was a call of this handler that returned its result
Succeeded(handler) ==
    /\ grade_calls' = grade_calls + 1
    /\ grade_request'.handler = handler
    /\ grade_result'.status = "200"

\* C22: each successful submit_ai_quiz adds one record of its own to
\* quiz_attempts, for its quiz and with its answers and result, and no step
\* changes or removes a record written before: k successful submissions to a
\* quiz leave k records of it
C22_SubmissionAddsRecord ==
    [][/\ Len(quiz_attempts') >= Len(quiz_attempts)
       /\ SubSeq(quiz_attempts', 1, Len(quiz_attempts)) = quiz_attempts
       /\ Succeeded("submit_ai_quiz")
             => /\ Len(quiz_attempts') = Len(quiz_attempts) + 1
                /\ quiz_attempts'[Len(quiz_attempts')].quiz_id = grade_request'.quiz_id
                /\ quiz_attempts'[Len(quiz_attempts')].answers = grade_request'.answers
                /\ quiz_attempts'[Len(quiz_attempts')].result = grade_result'.body
       /\ (grade_calls' # grade_calls /\ grade_result'.status # "200")
             => quiz_attempts' = quiz_attempts]_vars

\* C22 witness: two submissions to the quiz in the same second, the second
\* with other answers, have left two records
C22_Witness ==
    /\ Len(quiz_attempts) = 2
    /\ grade_request.handler = "submit_ai_quiz" /\ grade_result.status = "200"
    /\ \A k \in 1..2 : /\ "result" \in DOMAIN quiz_attempts[k]
                       /\ quiz_attempts[k].quiz_id = QuizId(0)
    /\ quiz_attempts[1].attempt_id = quiz_attempts[2].attempt_id
    /\ quiz_attempts[1].answers # quiz_attempts[2].answers

----------------------------------------------------------------------------
(* Properties of the chat service *)

\* the messages of the user that have one of the types, in their order
OfUser(coll, username, types) ==
    SelectSeq(coll, LAMBDA m : m.username = username /\ m.message_type \in types)

\* the step is clear_chat_history(username), no session given
ClearsHistoryOf(username) ==
    /\ chat_request'.op = "clear_chat_history"
    /\ chat_request'.username = username
    /\ chat_request'.session_id = ""

\* C23: clear_chat_history(username) deletes that user's content messages and
\* nothing else: the user's quiz and learning_path messages and every message
\* of every other user are as before, as many documents are gone as the user
\* had content messages, and the user's history afterwards is the quiz and
\* learning_path messages, with no content message
C23_ClearKeepsQuizAndPath ==
    [][\A u \in Usernames :
          ClearsHistoryOf(u)
              => /\ OfUser(chat_messages', u, {"content"}) = <<>>
                 /\ OfUser(chat_messages', u, {"quiz", "learning_path"})
                        = OfUser(chat_messages, u, {"quiz", "learning_path"})
                 /\ \A v \in Usernames \ {u} :
                        OfUser(chat_messages', v, MessageTypes)
                            = OfUser(chat_messages, v, MessageTypes)
                 /\ Len(chat_messages') + Len(OfUser(chat_messages, u, {"content"}))
                        = Len(chat_messages)
                 /\ chat_result'.data.deleted_count = Len(OfUser(chat_messages, u, {"content"}))
                 /\ get_chat_history(chat_messages', u, "", HistoryLimit)
                        = OfUser(chat_messages, u, {"quiz", "learning_path"})]_vars

\* C23 witness: alice's history was cleared of a content message; her quiz
\* message and a content message of bob are still there
C23_Witness ==
    /\ chat_request.op = "clear_chat_history"
    /\ chat_request.username = "alice" /\ chat_request.session_id = ""
    /\ chat_result.data.deleted_count >= 1
    /\ Len(OfUser(chat_messages, "alice", {"quiz"})) = 1
    /\ Len(OfUser(chat_messages, "bob", {"content"})) = 1

----------------------------------------------------------------------------
(* Properties of the two graders together *)

\* the records submit_ai_quiz and submit_topic_quiz have stored
AiRecords == SelectSeq(quiz_attempts, LAMBDA r : "result" \in DOMAIN r)

TopicRecords == SelectSeq(quiz_attempts, LAMBDA r : "detailed_results" \in DOMAIN r)

\* C24: submit_topic_quiz and submit_ai_quiz grade alike: for the same
\* questions and the same answers the two mark every answer the same
C24_SameVerdict ==
    \A a \in 1..Len(AiRecords), t \in 1..Len(TopicRecords) :
        AiRecords[a].answers = TopicRecords[t].answers
            => \A i \in 1..Len(TopicRecords[t].detailed_results) :
                  TopicRecords[t].detailed_results[i].is_correct
                      = AiRecords[a].result.answerReview[i].isCorrect

\* C25: submit_topic_quiz marks no answer correct against a reference answer
\* that is missing or empty, whatever the type of the question
C25_EmptyReferenceNeverCorrect ==
    GradedBy("submit_topic_quiz")
        => \A i \in 1..Len(Entries) :
              EntryReference(i) = PyStr(<<>>) => ~Entries[i].is_correct

----------------------------------------------------------------------------
(* Properties of what a run of process_learning_path_query stores *)

\* the run has returned a result (it has not raised)
Returned == Finished /\ result.response \in {"JSON", "ERROR"}

\* C26: a run that returns has called store_chat_history exactly once, with
\* the message of the attempt that decided it and none for the failed attempts
\* before; a step inserts at most one lesson, and inserts one exactly when it
\* ends the run in success
C26_OneStorePerRun ==
    /\ [](pc \in {"attempt", "generating", "respond"} => stores = 0)
    /\ [](Returned
             => /\ stores = 1
                /\ chat_history # <<>>
                /\ chat_history[Len(chat_history)].type
                       = (IF result.response = "JSON" THEN "learning_path" ELSE "content"))
    /\ [][/\ runs' = runs => Len(chat_history') - Len(chat_history) = stores' - stores
          /\ Len(lessons') <= Len(lessons) + 1
          /\ (lessons' # lessons)
                <=> (pc = "respond" /\ pc' = "done" /\ result'.response = "JSON")]_vars

\* C26 witness: a run returned success on its third attempt, with one message
\* stored and one lesson inserted
C26_Witness ==
    /\ Returned /\ result.response = "JSON" /\ retry_count = 2
    /\ stores = 1 /\ Len(chat_history) = 1 /\ Len(lessons) = 1

----------------------------------------------------------------------------
(* Properties of mark_topic_complete *)

\* the step is a call of mark_topic_complete
TopicCall == progress_calls' = progress_calls + 1

\* C27: mark_topic_complete answers as it acts: a call that writes or updates
\* a progress record, the first for a user and learning path included,
\* returns the success response, and a call that answers with an error leaves
\* user_topic_progress and learning_goals as they were
C27_AllOrNothing ==
    [][TopicCall
          => /\ user_topic_progress' # user_topic_progress => progress_result'.status = "200"
             /\ progress_result'.status # "200"
                    => UNCHANGED <<user_topic_progress, learning_goals>>]_vars

\* the list has no element twice
NoDuplicates(list) == \A i, j \in 1..Len(list) : list[i] = list[j] => i = j

\* C28: whatever calls of mark_topic_complete were made, the stored
\* completed_topics of every progress record holds no index twice and its
\* overall_progress is between 0 and 100
C28_ProgressInRange ==
    \A k \in 1..Len(user_topic_progress) :
        /\ NoDuplicates(user_topic_progress[k].completed_topics)
        /\ user_topic_progress[k].overall_progress[1] >= 0
        /\ user_topic_progress[k].overall_progress[1]
               <= 100 * user_topic_progress[k].overall_progress[2]

----------------------------------------------------------------------------
(* Properties of the errors of submit_ai_quiz *)

\* the latest call is submit_ai_quiz with no answers
EmptySubmission ==
    grade_request.handler = "submit_ai_quiz" /\ grade_request.answers = <<>>

\* the latest call is submit_ai_quiz, with answers, for a quiz_id that is in
\* no collection
UnknownQuiz ==
    /\ grade_request.handler = "submit_ai_quiz"
    /\ grade_request.answers # <<>>
    /\ FindQuiz(quizzes, grade_request.quiz_id, grade_request.username) = <<>>

\* C29: submit_ai_quiz ends with the status it raises: 400 for an empty list
\* of answers, 404 for a quiz that is not found; in both cases no attempt is
\* stored and the status of the quiz stays as it was
C29_ErrorStatus ==
    /\ EmptySubmission => grade_result.status = "400"
    /\ UnknownQuiz => grade_result.status = "404"
    /\ (EmptySubmission \/ UnknownQuiz)
          => /\ quiz_attempts = <<>>
             /\ \A k \in 1..Len(quizzes) : quizzes[k].status = "active"

----------------------------------------------------------------------------
(* Properties of create_learning_path *)

\* no two documents of the collection have the same username and name
OnePerName(coll) ==
    \A i, j \in 1..Len(coll) :
        coll[i].username = coll[j].username /\ coll[i].name = coll[j].name => i = j

\* request k is taken up by this step while a learning path of its name exists
\* for its user
TakenUpAsDuplicate(k) ==
    /\ create_pc[k].at = "received"
    /\ create_pc'[k].at # "received"
    /\ ExistingGoal(learning_goals, create_pc[k].username, create_pc[k].name) # 0

\* C30: whatever the order in which the requests received are handled,
\* learning_goals holds at most one document for a username and a name; a
\* request whose name exists for its user is rejected, and its handling
\* inserts nothing and deletes nothing
C30_OnePathPerName ==
    /\ [](OnePerName(learning_goals))
    /\ [][\A k \in 1..Len(create_pc) :
              TakenUpAsDuplicate(k)
                  => /\ create_pc'[k].at = "done"
                     /\ create_result'[k] = ServerError(AlreadyExists)
                     /\ learning_goals' = learning_goals
                     /\ lessons' = lessons]_vars

\* two requests for the same path were in flight together; the one received
\* last was handled first and created the path, the other was rejected, and a
\* generated path of another name is still in lessons
C30_Witness ==
    \E j, k \in 1..Len(create_pc) :
        /\ k < j
        /\ create_pc[j].username = create_pc[k].username
        /\ create_pc[j].name = create_pc[k].name
        /\ create_result[j].status = "200"
        /\ create_result[k] = ServerError(AlreadyExists)
        /\ Len(learning_goals) = 2
        /\ Len(lessons) = 1

====
